---------------------------- MODULE Spec2Model ----------------------------
(***************************************************************************)
(* A model of the Apify MCP server: input normalization (input.ts), the    *)
(* tool loader (utils/tools-loader.ts), the tool registry and the          *)
(* tools/call dispatcher of ActorsMcpServer (mcp/server.ts) and the Actor  *)
(* call with cancellation (tools/actor.ts), the downstream connections     *)
(* (mcp/client.ts) and the TTL cache (utils/ttl-lru.ts).                   *)
(*                                                                         *)
(* Strings are sequences of one-character strings, so that trimming,       *)
(* splitting and the name conversions are computed as the code computes    *)
(* them.                                                                   *)
(***************************************************************************)
EXTENDS Integers, Sequences, FiniteSets, TLC

VARIABLES
    stage,        \* loader pipeline: "raw", "normalized", "loaded"
    rawInput,     \* the Partial<Input> handed to the program
    input,        \* the Input the loader received
    actorNames,   \* actorNamesToLoad of the last loadToolsFromInput
    loaded,       \* ToolEntry[] returned by the last loadToolsFromInput
    tools,        \* per session: ActorsMcpServer.tools (a Map, in insertion order)
    handler,      \* per session: is a toolsChangedHandler registered
    closed,       \* per session: close() has been called
    lastOp,       \* the registry operation performed last, with its pre-state and result
    ajvAlive,     \* per internal tool singleton: ajvValidate is still a function
    calls,        \* per request slot: the tools/call request being handled
    runs,         \* per request slot: the Actor run the request started
    ops,          \* number of registry operations performed
    tasks,        \* per task: an operation that owns downstream connections or a run
    conns,        \* every downstream Client created in the process, in creation order
    jobs,         \* every Actor run started in the process, in creation order
    logLevel,     \* ActorsMcpServer.currentLogLevel
    reply,        \* the answer to the tools/call request handled in the last step
    pending,      \* registry batches that have begun and not yet applied all their turns
    observed,     \* what the request handled in the last step found in the registry
    cache,        \* TTLLRUCache.cache: the entries, least recently used first
    clock,        \* Date.now()
    history,      \* per key: its last set, and what happened to the entry since
    got,          \* the get made in the last step and its result
    heap,         \* the objects of a schema adaptation, by reference
    schema,       \* the input schema handed to transformActorInputSchemaProperties
    adapted,      \* the outcome of the adaptation
    callArgs,     \* the arguments of a tools/call request, as sent and as decoded
    toolLoads,    \* the loads of the Actor whose definition is cached, and their tools
    infoMade,     \* the Actors call-actor was asked about with step "info"
    actorRuns,    \* per Actor: the runs call-actor started
    lastStep,     \* the last call-actor call and its answer
    starts,       \* the runs started on the platform, each with the options it was given
    logged,       \* the last logging request or log message, and what reached the client
    tracker,      \* the ProgressTracker of a call: its interval and what it saw last
    polls,        \* the status polls of the tracker, in the order they were started
    remoteRun     \* the run on the platform: its status and status message

vars == <<stage, rawInput, input, actorNames, loaded, tools, handler, closed,
          lastOp, ajvAlive, calls, runs, ops, tasks, conns, jobs,
          logLevel, reply, pending, observed,
          cache, clock, history, got,
          heap, schema, adapted, callArgs, toolLoads,
          infoMade, actorRuns, lastStep,
          starts, logged, tracker, polls, remoteRun>>

loaderVars == <<stage, rawInput, input, actorNames, loaded>>
serverVars == <<tools, handler, closed, lastOp, ajvAlive, calls, runs, ops>>
resourceVars == <<tasks, conns, jobs>>
replyVars == <<logLevel, reply>>
turnVars == <<pending, observed>>
cacheVars == <<cache, clock, history, got>>
schemaVars == <<heap, schema, adapted, callArgs, toolLoads>>
stepVars == <<infoMade, actorRuns, lastStep>>
memoryVars == <<starts>>
loggingVars == <<logged>>
progressVars == <<tracker, polls, remoteRun>>
moreVars == <<memoryVars, loggingVars, progressVars>>
extVars == <<resourceVars, replyVars, turnVars, cacheVars, schemaVars, stepVars, moreVars>>

-----------------------------------------------------------------------------
(* Bounds of the model *)

MaxSelectors == 2     \* longest `tools` list drawn
MaxActors == 1        \* longest `actors` list drawn
MaxOps == 3           \* registry operations per behaviour
MaxBatch == 2         \* longest batch given to upsertTools / removeToolsByName

-----------------------------------------------------------------------------
(* Strings *)

IsSpace(c) == c \in {" ", "\t"}

RECURSIVE TrimStart(_)
TrimStart(s) ==
    IF s = <<>> THEN <<>>
    ELSE IF IsSpace(Head(s)) THEN TrimStart(Tail(s)) ELSE s

RECURSIVE TrimEnd(_)
TrimEnd(s) ==
    IF s = <<>> THEN <<>>
    ELSE IF IsSpace(s[Len(s)]) THEN TrimEnd(SubSeq(s, 1, Len(s) - 1)) ELSE s

\* String.prototype.trim
Trim(s) == TrimEnd(TrimStart(s))

\* String.prototype.split(c) for a one-character separator
RECURSIVE SplitAcc(_, _, _)
SplitAcc(s, c, cur) ==
    IF s = <<>> THEN <<cur>>
    ELSE IF Head(s) = c THEN <<cur>> \o SplitAcc(Tail(s), c, <<>>)
    ELSE SplitAcc(Tail(s), c, Append(cur, Head(s)))

Split(s, c) == SplitAcc(s, c, <<>>)

\* Array.prototype.join(c)
RECURSIVE Join(_, _)
Join(l, c) ==
    IF l = <<>> THEN <<>>
    ELSE IF Len(l) = 1 THEN l[1]
    ELSE l[1] \o <<c>> \o Join(Tail(l), c)

\* String.prototype.replace(/c/g, by)
RECURSIVE ReplaceAll(_, _, _)
ReplaceAll(s, c, by) ==
    IF s = <<>> THEN <<>>
    ELSE (IF Head(s) = c THEN by ELSE <<Head(s)>>) \o ReplaceAll(Tail(s), c, by)

\* String.prototype.slice(0, n)
Slice0(s, n) == SubSeq(s, 1, IF Len(s) < n THEN Len(s) ELSE n)

LowerChar(c) ==
    CASE c = "T" -> "t" [] c = "R" -> "r" [] c = "U" -> "u" [] c = "E" -> "e"
      [] c = "F" -> "f" [] c = "A" -> "a" [] c = "L" -> "l" [] c = "S" -> "s"
      [] OTHER -> c

\* String.prototype.toLowerCase
ToLowerCase(s) == [i \in 1..Len(s) |-> LowerChar(s[i])]

\* Array.prototype.map and filter over sequences
RECURSIVE SelectNonEmpty(_)
SelectNonEmpty(l) ==
    IF l = <<>> THEN <<>>
    ELSE (IF Head(l) # <<>> THEN <<Head(l)>> ELSE <<>>) \o SelectNonEmpty(Tail(l))

TrimAll(l) == [i \in 1..Len(l) |-> Trim(l[i])]

Range(f) == {f[i] : i \in DOMAIN f}

-----------------------------------------------------------------------------
(* Names (const.ts HelperTools, the category keys of tools/index.ts) *)

ACTOR_ADD == <<"a", "d", "d", "-", "a", "c", "t", "o", "r">>
ACTOR_CALL == <<"c", "a", "l", "l", "-", "a", "c", "t", "o", "r">>
ACTOR_GET_DETAILS == <<"f", "e", "t", "c", "h", "-", "a", "c", "t", "o", "r", "-", "d", "e", "t", "a", "i", "l", "s">>
ACTOR_OUTPUT_GET == <<"g", "e", "t", "-", "a", "c", "t", "o", "r", "-", "o", "u", "t", "p", "u", "t">>
ACTOR_RUNS_GET == <<"g", "e", "t", "-", "a", "c", "t", "o", "r", "-", "r", "u", "n">>
ACTOR_RUNS_LOG == <<"g", "e", "t", "-", "a", "c", "t", "o", "r", "-", "l", "o", "g">>
ACTOR_RUN_LIST_GET == <<"g", "e", "t", "-", "a", "c", "t", "o", "r", "-", "r", "u", "n", "-", "l", "i", "s", "t">>
DATASET_GET == <<"g", "e", "t", "-", "d", "a", "t", "a", "s", "e", "t">>
DATASET_LIST_GET == <<"g", "e", "t", "-", "d", "a", "t", "a", "s", "e", "t", "-", "l", "i", "s", "t">>
DATASET_GET_ITEMS == <<"g", "e", "t", "-", "d", "a", "t", "a", "s", "e", "t", "-", "i", "t", "e", "m", "s">>
DATASET_SCHEMA_GET == <<"g", "e", "t", "-", "d", "a", "t", "a", "s", "e", "t", "-", "s", "c", "h", "e", "m", "a">>
KEY_VALUE_STORE_LIST_GET == <<"g", "e", "t", "-", "k", "e", "y", "-", "v", "a", "l", "u", "e", "-", "s", "t", "o", "r", "e", "-", "l", "i", "s", "t">>
KEY_VALUE_STORE_GET == <<"g", "e", "t", "-", "k", "e", "y", "-", "v", "a", "l", "u", "e", "-", "s", "t", "o", "r", "e">>
KEY_VALUE_STORE_KEYS_GET == <<"g", "e", "t", "-", "k", "e", "y", "-", "v", "a", "l", "u", "e", "-", "s", "t", "o", "r", "e", "-", "k", "e", "y", "s">>
KEY_VALUE_STORE_RECORD_GET == <<"g", "e", "t", "-", "k", "e", "y", "-", "v", "a", "l", "u", "e", "-", "s", "t", "o", "r", "e", "-", "r", "e", "c", "o", "r", "d">>
STORE_SEARCH == <<"s", "e", "a", "r", "c", "h", "-", "a", "c", "t", "o", "r", "s">>
DOCS_SEARCH == <<"s", "e", "a", "r", "c", "h", "-", "a", "p", "i", "f", "y", "-", "d", "o", "c", "s">>
DOCS_FETCH == <<"f", "e", "t", "c", "h", "-", "a", "p", "i", "f", "y", "-", "d", "o", "c", "s">>

CatExperimental == <<"e", "x", "p", "e", "r", "i", "m", "e", "n", "t", "a", "l">>
CatActors == <<"a", "c", "t", "o", "r", "s">>
CatDocs == <<"d", "o", "c", "s">>
CatRuns == <<"r", "u", "n", "s">>
CatStorage == <<"s", "t", "o", "r", "a", "g", "e">>
CatPreview == <<"p", "r", "e", "v", "i", "e", "w">>

\* defaults.actors[0]
RagWebBrowser == <<"a", "p", "i", "f", "y", "/", "r", "a", "g", "-", "w", "e", "b", "-", "b", "r", "o", "w", "s", "e", "r">>

ACTOR_MAX_MEMORY_MBYTES == 4096
ToolNameMaxLength == 64

\* tools/utils.ts actorNameToToolName
actorNameToToolName(actorName) ==
    Slice0(ReplaceAll(ReplaceAll(actorName, "/", <<"-", "s", "l", "a", "s", "h", "-">>),
                      ".", <<"-", "d", "o", "t", "-">>),
           ToolNameMaxLength)

-----------------------------------------------------------------------------
(* The platform: the Actors that exist, by full name or by ID *)

ActorAB == <<"a", "/", "b">>          \* a normal Actor
ActorABId == <<"i", "d", "b">>        \* the same Actor, named by its ID
ActorCD == <<"c", "/", "d">>          \* another normal Actor
ActorMcp == <<"a", "/", "m">>         \* an Actor that is an MCP server
ActorMcp2 == <<"b", "/", "m">>        \* another Actor that is an MCP server
ActorMcpU == <<"c", "/", "m">>        \* an MCP server whose tool is named u__v
ActorNone == <<"n", "/", "x">>        \* no such Actor

\* Actors of one user whose names differ only after the 56th character
LongName(last) == <<"u", "/">> \o [i \in 1..61 |-> "x"] \o <<last>>

\* Actors whose full names differ in dots, in "-dot-" or late in a long name
NamedActors ==
    {<<"u", "/", "n">>, <<"u", ".", "v", "/", "n">>,
     <<"u", "-", "d", "o", "t", "-", "v", "/", "n">>, LongName("a"), LongName("b")}

NotFound == [found |-> FALSE, id |-> <<>>, actorFullName |-> <<>>, webServerMcpPath |-> <<>>,
             memoryMbytes |-> 0, remoteTools |-> <<>>]

Definition(id, fullName, path, mem, remote) ==
    [found |-> TRUE, id |-> id, actorFullName |-> fullName, webServerMcpPath |-> path,
     memoryMbytes |-> mem, remoteTools |-> remote]

\* tools/build.ts getActorDefinition: the pruned definition, or null
getActorDefinition(actorIdOrName) ==
    CASE actorIdOrName \in {ActorAB, ActorABId} ->
            Definition(ActorABId, ActorAB, <<>>, 8192, <<>>)
      [] actorIdOrName \in {ActorCD, <<"i", "d", "d">>} ->
            Definition(<<"i", "d", "d">>, ActorCD, <<>>, 0, <<>>)
      [] actorIdOrName \in {RagWebBrowser, <<"i", "d", "r">>} ->
            Definition(<<"i", "d", "r">>, RagWebBrowser, <<>>, 1024, <<>>)
      [] actorIdOrName \in {ActorMcp, <<"i", "d", "m">>} ->
            Definition(<<"i", "d", "m">>, ActorMcp, <<"/", "m", "c", "p">>, 0,
                       << <<"t", "1">>, <<"t", "2">> >>)
      [] actorIdOrName \in {ActorMcp2, <<"i", "d", "n">>} ->
            Definition(<<"i", "d", "n">>, ActorMcp2, <<"/", "m", "c", "p">>, 0,
                       << <<"t", "1">> >>)
      [] actorIdOrName \in {ActorMcpU, <<"i", "d", "u">>} ->
            Definition(<<"i", "d", "u">>, ActorMcpU, <<"/", "m", "c", "p">>, 0,
                       << <<"u", "_", "_", "v">> >>)
      [] actorIdOrName \in NamedActors ->
            Definition(<<"i", "d">> \o actorIdOrName, actorIdOrName, <<>>, 0, <<>>)
      [] OTHER -> NotFound

-----------------------------------------------------------------------------
(* Tool entries (types.ts ToolEntry) *)

InternalEntry(n) ==
    [type |-> "internal", name |-> n,
     actorFullName |-> IF n \in {ACTOR_ADD, STORE_SEARCH, DOCS_SEARCH, DOCS_FETCH} THEN <<>> ELSE n,
     actorId |-> <<>>,
     originToolName |-> <<>>, memoryMbytes |-> 0, rev |-> 1]

\* mcp/utils.ts getMCPServerID: a short identifier derived from the server URL
\* (the identifier is taken to be the three characters that follow the scheme)
getMCPServerID(serverUrl) == SubSeq(serverUrl, 9, 11)

\* mcp/utils.ts getProxyMCPServerToolName
getProxyMCPServerToolName(serverUrl, toolName) ==
    getMCPServerID(serverUrl) \o <<"-">> \o toolName

\* mcp/actors.ts getActorStandbyURL, with the default base URL
getActorStandbyURL(realActorId) ==
    <<"h", "t", "t", "p", "s", ":", "/", "/">> \o realActorId
        \o <<".", "a", "p", "i", "f", "y", ".", "a", "c", "t", "o", "r">>

\* mcp/actors.ts getActorMCPServerURL
getActorMCPServerURL(realActorId, mcpServerPath) ==
    getActorStandbyURL(realActorId) \o mcpServerPath

\* tools/actor.ts getNormalActorsAsTools, one tool
ActorToolEntry(def, rev) ==
    LET memoryMbytes == IF def.memoryMbytes # 0 THEN def.memoryMbytes ELSE ACTOR_MAX_MEMORY_MBYTES
    IN [type |-> "actor", name |-> actorNameToToolName(def.actorFullName),
        actorFullName |-> def.actorFullName, actorId |-> <<>>, originToolName |-> <<>>,
        memoryMbytes |-> IF memoryMbytes > ACTOR_MAX_MEMORY_MBYTES
                         THEN ACTOR_MAX_MEMORY_MBYTES ELSE memoryMbytes,
        rev |-> rev]

\* mcp/proxy.ts getMCPServerTools, one tool
ActorMcpToolEntry(def, toolName) ==
    [type |-> "actor-mcp",
     name |-> getProxyMCPServerToolName(getActorMCPServerURL(def.id, def.webServerMcpPath), toolName),
     actorFullName |-> <<>>, actorId |-> def.id, originToolName |-> toolName,
     memoryMbytes |-> 0, rev |-> 1]

RECURSIVE FlatMap(_, _)
FlatMap(F(_), l) == IF l = <<>> THEN <<>> ELSE F(Head(l)) \o FlatMap(F, Tail(l))

\* one missing Actor fails the resolution of all
getActorsAsTools_AllOrNothing(actorIdsOrNames) ==
    LET Normal(n) == LET d == getActorDefinition(n)
                     IN IF d.webServerMcpPath = <<>> THEN <<ActorToolEntry(d, 1)>> ELSE <<>>
    IN IF \E i \in 1..Len(actorIdsOrNames) : ~getActorDefinition(actorIdsOrNames[i]).found
       THEN <<>>
       ELSE FlatMap(Normal, actorIdsOrNames)

\* tools/actor.ts getActorsAsTools: the normal Actors' tools, then the MCP servers' tools
getActorsAsTools(actorIdsOrNames) ==
    LET Normal(n) == LET d == getActorDefinition(n)
                     IN IF d.found /\ d.webServerMcpPath = <<>> THEN <<ActorToolEntry(d, 1)>> ELSE <<>>
        OneRemote(d) == [i \in 1..Len(d.remoteTools) |-> ActorMcpToolEntry(d, d.remoteTools[i])]
        Mcp(n) == LET d == getActorDefinition(n)
                  IN IF d.found /\ d.webServerMcpPath # <<>> THEN OneRemote(d) ELSE <<>>
    IN FlatMap(Normal, actorIdsOrNames) \o FlatMap(Mcp, actorIdsOrNames)

\* tools/index.ts toolCategories
toolCategories(category) ==
    CASE category = CatExperimental -> <<ACTOR_ADD>>
      [] category = CatActors -> <<ACTOR_GET_DETAILS, STORE_SEARCH, ACTOR_CALL>>
      [] category = CatDocs -> <<DOCS_SEARCH, DOCS_FETCH>>
      [] category = CatRuns -> <<ACTOR_RUNS_GET, ACTOR_RUN_LIST_GET, ACTOR_RUNS_LOG>>
      [] category = CatStorage ->
            <<DATASET_GET, DATASET_GET_ITEMS, DATASET_SCHEMA_GET, ACTOR_OUTPUT_GET,
              KEY_VALUE_STORE_GET, KEY_VALUE_STORE_KEYS_GET, KEY_VALUE_STORE_RECORD_GET,
              DATASET_LIST_GET, KEY_VALUE_STORE_LIST_GET>>
      [] OTHER -> <<>>

ToolCategoryKeys == <<CatExperimental, CatActors, CatDocs, CatRuns, CatStorage>>

\* tools/index.ts toolCategoriesEnabledByDefault
toolCategoriesEnabledByDefault == <<CatActors, CatDocs>>

\* utils/tools.ts getExpectedToolsByCategories
getExpectedToolsByCategories(categories) ==
    LET Cat(c) == [i \in 1..Len(toolCategories(c)) |-> InternalEntry(toolCategories(c)[i])]
    IN FlatMap(Cat, categories)

\* tools/index.ts defaultTools
defaultTools == getExpectedToolsByCategories(toolCategoriesEnabledByDefault)

\* utils/tools-loader.ts getInternalToolByNameMap (its keys)
InternalToolNames == {e.name : e \in Range(getExpectedToolsByCategories(ToolCategoryKeys))}

\* const.ts defaults.actors
DefaultActors == <<RagWebBrowser>>

-----------------------------------------------------------------------------
(* Input values: undefined, an array of strings, a string, a boolean *)

UNDEF == [kind |-> "undefined", b |-> FALSE, v |-> <<>>]
Arr(l) == [kind |-> "array", b |-> FALSE, v |-> l]
Str(s) == [kind |-> "string", b |-> FALSE, v |-> s]
Bool(x) == [kind |-> "boolean", b |-> x, v |-> <<>>]

\* input.ts toBoolean
toBoolean(value, defaultValue) ==
    CASE value.kind = "undefined" -> defaultValue
      [] value.kind = "boolean" -> value.b
      [] value.kind = "string" -> ToLowerCase(value.v) = <<"t", "r", "u", "e">>
      [] OTHER -> defaultValue

\* input.ts normalizeList
normalizeList(value) ==
    CASE value.kind = "undefined" -> UNDEF
      [] value.kind = "array" -> Arr(SelectNonEmpty(TrimAll(value.v)))
      [] OTHER ->
            LET trimmed == Trim(value.v)
            IN IF trimmed = <<>> THEN Arr(<<>>)
               ELSE Arr(SelectNonEmpty(TrimAll(Split(trimmed, ","))))

\* processInput with an empty list taken for a missing one
processInput_EmptyAsAbsent(originalInput) ==
    LET actors == normalizeList(originalInput.actors)
        enableAddingActors ==
            IF originalInput.enableAddingActors.kind = "undefined"
               /\ originalInput.enableActorAutoLoading.kind # "undefined"
            THEN toBoolean(originalInput.enableActorAutoLoading, FALSE)
            ELSE toBoolean(originalInput.enableAddingActors, FALSE)
        tools0 == normalizeList(originalInput.tools)
        merge == actors.kind = "array" /\ Len(actors.v) > 0
        merged == IF merge
                  THEN (IF tools0.kind = "undefined" THEN Arr(actors.v)
                        ELSE Arr(tools0.v \o actors.v))
                  ELSE IF tools0.kind = "array" /\ tools0.v = <<>> THEN UNDEF
                  ELSE tools0
    IN [actors |-> IF merge /\ merged.kind # "undefined" THEN UNDEF ELSE actors,
        enableActorAutoLoading |-> originalInput.enableActorAutoLoading,
        enableAddingActors |-> Bool(enableAddingActors),
        tools |-> merged]

\* input.ts processInput
processInput(originalInput) ==
    LET actors == normalizeList(originalInput.actors)
        enableAddingActors ==
            IF originalInput.enableAddingActors.kind = "undefined"
               /\ originalInput.enableActorAutoLoading.kind # "undefined"
            THEN toBoolean(originalInput.enableActorAutoLoading, FALSE)
            ELSE toBoolean(originalInput.enableAddingActors, FALSE)
        tools0 == normalizeList(originalInput.tools)
        merge == actors.kind = "array" /\ Len(actors.v) > 0
        merged == IF merge
                  THEN (IF tools0.kind = "undefined" THEN Arr(actors.v)
                        ELSE Arr(tools0.v \o actors.v))
                  ELSE tools0
    IN [actors |-> IF merge /\ merged.kind # "undefined" THEN UNDEF ELSE actors,
        enableActorAutoLoading |-> originalInput.enableActorAutoLoading,
        enableAddingActors |-> Bool(enableAddingActors),
        tools |-> merged]

-----------------------------------------------------------------------------
(* utils/tools-loader.ts loadToolsFromInput *)

\* normalizeSelectors
normalizeSelectors(value) ==
    CASE value.kind = "undefined" -> UNDEF
      [] value.kind = "array" -> Arr(SelectNonEmpty(TrimAll(value.v)))
      [] OTHER -> Arr(SelectNonEmpty(TrimAll(<<value.v>>)))

\* the internal tools one selector picks: 'preview', a category key, a tool name
InternalSelection(selector) ==
    IF selector = CatPreview THEN <<InternalEntry(ACTOR_CALL)>>
    ELSE IF toolCategories(selector) # <<>> THEN getExpectedToolsByCategories(<<selector>>)
    ELSE IF selector \in InternalToolNames THEN <<InternalEntry(selector)>>
    ELSE <<>>

IsActorSelector(selector) ==
    /\ selector # CatPreview
    /\ toolCategories(selector) = <<>>
    /\ selector \notin InternalToolNames

RECURSIVE SelectActorSelectors(_)
SelectActorSelectors(l) ==
    IF l = <<>> THEN <<>>
    ELSE (IF IsActorSelector(Head(l)) THEN <<Head(l)>> ELSE <<>>) \o SelectActorSelectors(Tail(l))

selectorsProvided(inp) == normalizeSelectors(inp.tools).kind # "undefined"

selectorsExplicitEmpty(inp) ==
    selectorsProvided(inp) /\ Len(normalizeSelectors(inp.tools).v) = 0

addActorEnabled(inp) == inp.enableAddingActors.kind = "boolean" /\ inp.enableAddingActors.b

actorsExplicitlyEmpty(inp) ==
    \/ inp.actors.kind = "array" /\ Len(inp.actors.v) = 0
    \/ inp.actors.kind = "string" /\ inp.actors.v = <<>>

internalSelections(inp) ==
    IF selectorsProvided(inp) /\ ~selectorsExplicitEmpty(inp)
    THEN FlatMap(InternalSelection, normalizeSelectors(inp.tools).v)
    ELSE <<>>

actorSelectorsFromTools(inp) ==
    IF selectorsProvided(inp) /\ ~selectorsExplicitEmpty(inp)
    THEN SelectActorSelectors(normalizeSelectors(inp.tools).v)
    ELSE <<>>

actorsFromField(inp) ==
    CASE inp.actors.kind = "undefined" -> UNDEF
      [] inp.actors.kind = "array" -> Arr(inp.actors.v)
      [] OTHER -> Arr(<<inp.actors.v>>)

\* actorNamesToLoad with an empty actors field falling through to the selectors
actorNamesToLoad_EmptyFallsThrough(inp) ==
    IF actorsFromField(inp).kind # "undefined" /\ Len(actorsFromField(inp).v) > 0
    THEN actorsFromField(inp).v
    ELSE IF Len(actorSelectorsFromTools(inp)) > 0 THEN actorSelectorsFromTools(inp)
    ELSE IF ~selectorsProvided(inp)
         THEN (IF addActorEnabled(inp) THEN <<>> ELSE DefaultActors)
    ELSE <<>>

\* "Decide which Actors to load"
actorNamesToLoad(inp) ==
    IF actorsFromField(inp).kind # "undefined" THEN actorsFromField(inp).v
    ELSE IF Len(actorSelectorsFromTools(inp)) > 0 THEN actorSelectorsFromTools(inp)
    ELSE IF ~selectorsProvided(inp)
         THEN (IF addActorEnabled(inp) THEN <<>> ELSE DefaultActors)
    ELSE <<>>

HasName(l, n) == \E i \in 1..Len(l) : l[i].name = n

\* the internal tools with add-actor whenever adding Actors is enabled
composeInternal_AddWhenEnabled(inp) ==
    IF selectorsProvided(inp)
    THEN internalSelections(inp)
         \o (IF addActorEnabled(inp) /\ ~HasName(internalSelections(inp), ACTOR_ADD)
             THEN <<InternalEntry(ACTOR_ADD)>> ELSE <<>>)
    ELSE IF addActorEnabled(inp) THEN <<InternalEntry(ACTOR_ADD)>>
    ELSE IF ~actorsExplicitlyEmpty(inp) THEN getExpectedToolsByCategories(toolCategoriesEnabledByDefault)
    ELSE <<>>

\* "Compose final tool list": the internal tools
composeInternal(inp) ==
    IF selectorsProvided(inp)
    THEN internalSelections(inp)
         \o (IF addActorEnabled(inp) /\ ~selectorsExplicitEmpty(inp) /\ ~actorsExplicitlyEmpty(inp)
                /\ ~HasName(internalSelections(inp), ACTOR_ADD)
             THEN <<InternalEntry(ACTOR_ADD)>> ELSE <<>>)
    ELSE IF addActorEnabled(inp) /\ ~actorsExplicitlyEmpty(inp) THEN <<InternalEntry(ACTOR_ADD)>>
    ELSE IF ~actorsExplicitlyEmpty(inp) THEN getExpectedToolsByCategories(toolCategoriesEnabledByDefault)
    ELSE <<>>

\* the get-actor-output tool goes with every tool that can call an Actor
withActorOutput(result) ==
    LET hasCallActor == HasName(result, ACTOR_CALL)
        hasActorTools == \E i \in 1..Len(result) : result[i].type = "actor"
        hasAddActorTool == HasName(result, ACTOR_ADD)
    IN IF hasCallActor \/ hasActorTools \/ hasAddActorTool
       THEN Append(result, InternalEntry(ACTOR_OUTPUT_GET)) ELSE result

\* the composed list returned without de-duplication
dedupeByName_Skipped(result, seen) == result

\* "De-duplicate by tool name": the first entry of each name is kept
RECURSIVE dedupeByName(_, _)
dedupeByName(result, seen) ==
    IF result = <<>> THEN <<>>
    ELSE IF Head(result).name \in seen THEN dedupeByName(Tail(result), seen)
    ELSE <<Head(result)>> \o dedupeByName(Tail(result), seen \cup {Head(result).name})

loadToolsFromInput(inp) ==
    LET names == actorNamesToLoad(inp)
        actorTools == IF Len(names) > 0 THEN getActorsAsTools(names) ELSE <<>>
    IN dedupeByName(withActorOutput(composeInternal(inp) \o actorTools), {})

-----------------------------------------------------------------------------
(* The inputs drawn *)

Blank == <<" ">>
PaddedDocs == <<" ">> \o CatDocs \o <<" ">>

SelectorUniverse ==
    {CatDocs, PaddedDocs, CatStorage, CatPreview, ACTOR_ADD, ActorAB, ActorNone, Blank}

ActorUniverse == {ActorAB, ActorMcp, Blank}

ListsOver(U, n) == UNION {[1..k -> U] : k \in 0..n}

\* undefined, every list as an array, and every list as a comma-separated string
RawLists(U, n) ==
    {UNDEF} \cup {Arr(l) : l \in ListsOver(U, n)} \cup {Str(Join(l, ",")) : l \in ListsOver(U, n)}

RawFlags == {UNDEF, Bool(TRUE), Bool(FALSE), Str(<<"T", "r", "u", "e">>)}

RawInputs ==
    {[actors |-> a, enableActorAutoLoading |-> l, enableAddingActors |-> e, tools |-> t] :
        a \in RawLists(ActorUniverse, MaxActors), l \in {UNDEF, Bool(TRUE)},
        e \in RawFlags, t \in RawLists(SelectorUniverse, MaxSelectors)}

\* an Input as a caller passes it to the loader without processInput: lists are
\* arrays of names, the flag is a boolean (internals.test.ts)
NoBlank(value) ==
    value.kind = "array" => \A i \in 1..Len(value.v) : Trim(value.v[i]) = value.v[i] /\ value.v[i] # <<>>

IsProcessedShape(inp) ==
    /\ inp.actors.kind \in {"undefined", "array"} /\ NoBlank(inp.actors)
    /\ inp.tools.kind \in {"undefined", "array"} /\ NoBlank(inp.tools)
    /\ inp.enableAddingActors.kind \in {"undefined", "boolean"}

-----------------------------------------------------------------------------
(* The loader pipeline as a state machine *)

Sessions == {"s1", "s2"}
Slots == {"r1", "r2"}

-----------------------------------------------------------------------------
(* mcp/server.ts ActorsMcpServer: the registry.  `reg` is the tools Map, *)
(* its entries in insertion order.                                        *)

IndexOfName(reg, n) == CHOOSE i \in 1..Len(reg) : reg[i].name = n

\* Map.set that leaves an existing key alone
MapSet_KeepExisting(reg, wrap) ==
    IF HasName(reg, wrap.name) THEN reg ELSE Append(reg, wrap)

\* Map.set: an existing key keeps its place and takes the new value
MapSet(reg, wrap) ==
    IF HasName(reg, wrap.name) THEN [reg EXCEPT ![IndexOfName(reg, wrap.name)] = wrap]
    ELSE Append(reg, wrap)

\* upsertTools: the loop over the given entries
RECURSIVE upsertTools(_, _)
upsertTools(reg, entries) ==
    IF entries = <<>> THEN reg
    ELSE upsertTools(MapSet(reg, Head(entries)), Tail(entries))

\* removeToolByName: the Map after `delete`
removeToolByName(reg, toolName) ==
    LET Keep(e) == e.name # toolName
    IN SelectSeq(reg, Keep)

\* removeToolsByName: the Map and the names removed, in the order asked
RECURSIVE removeToolsByName(_, _)
removeToolsByName(reg, toolNames) ==
    IF toolNames = <<>> THEN [reg |-> reg, removedTools |-> <<>>]
    ELSE IF HasName(reg, Head(toolNames))
         THEN LET rest == removeToolsByName(removeToolByName(reg, Head(toolNames)), Tail(toolNames))
              IN [reg |-> rest.reg, removedTools |-> <<Head(toolNames)>> \o rest.removedTools]
         ELSE removeToolsByName(reg, Tail(toolNames))

\* the notification made whenever it was asked for
removeNotifies_Always(removedTools, shouldNotifyToolsChangedHandler) ==
    shouldNotifyToolsChangedHandler

\* whether removeToolsByName calls notifyToolsChangedHandler
removeNotifies(removedTools, shouldNotifyToolsChangedHandler) ==
    Len(removedTools) > 0 /\ shouldNotifyToolsChangedHandler

listToolNames(reg) == [i \in 1..Len(reg) |-> reg[i].name]

listInternalToolNames(reg) ==
    LET IsInternal(e) == e.type = "internal"
        l == SelectSeq(reg, IsInternal)
    IN [i \in 1..Len(l) |-> l[i].name]

listActorToolNames(reg) ==
    LET IsActor(e) == e.type = "actor"
        l == SelectSeq(reg, IsActor)
    IN [i \in 1..Len(l) |-> l[i].actorFullName]

\* Array.from(new Set(ids)): the first occurrence of each
RECURSIVE Unique(_, _)
Unique(l, seen) ==
    IF l = <<>> THEN <<>>
    ELSE IF Head(l) \in seen THEN Unique(Tail(l), seen)
    ELSE <<Head(l)>> \o Unique(Tail(l), seen \cup {Head(l)})

\* listActorMcpServerToolIds with the uniqueness step left out
listActorMcpServerToolIds_NoSet(reg) ==
    LET IsActorMcp(e) == e.type = "actor-mcp"
        l == SelectSeq(reg, IsActorMcp)
    IN [i \in 1..Len(l) |-> l[i].actorId]

listActorMcpServerToolIds(reg) ==
    LET IsActorMcp(e) == e.type = "actor-mcp"
        l == SelectSeq(reg, IsActorMcp)
    IN Unique([i \in 1..Len(l) |-> l[i].actorId], {})

listAllToolNames(reg) ==
    listInternalToolNames(reg) \o listActorToolNames(reg) \o listActorMcpServerToolIds(reg)

\* the handler is called whether or not it is registered
notifyToolsChangedHandler_Kept(reg, registered) == <<listAllToolNames(reg)>>

\* notifyToolsChangedHandler: the payloads the handler receives
notifyToolsChangedHandler(reg, registered) ==
    IF ~registered THEN <<>> ELSE <<listAllToolNames(reg)>>

\* loadToolsByName that asks the platform for every name that is not loaded
loadToolsByName_ActorsOnly(reg, toolNames, registered) ==
    LET NotLoaded(n) == ~(\E k \in 1..Len(listAllToolNames(reg)) : listAllToolNames(reg)[k] = n)
        actorTools == getActorsAsTools(SelectSeq(toolNames, NotLoaded))
    IN [reg |-> IF Len(actorTools) > 0 THEN upsertTools(reg, actorTools) ELSE reg,
        delivered |-> <<>>]

\* loadToolsByName(toolNames): the names that are not loaded are upserted, the internal
\* tools from the module's map and the others as Actors
loadToolsByName(reg, toolNames, registered) ==
    LET NotLoaded(n) == ~(\E k \in 1..Len(listAllToolNames(reg)) : listAllToolNames(reg)[k] = n)
        IsInternalName(n) == n \in InternalToolNames
        IsOtherName(n) == n \notin InternalToolNames
        missing == SelectSeq(toolNames, NotLoaded)
        toolsToLoad == [i \in 1..Len(SelectSeq(missing, IsInternalName)) |->
                            InternalEntry(SelectSeq(missing, IsInternalName)[i])]
        actorsToLoad == SelectSeq(missing, IsOtherName)
        reg1 == IF Len(toolsToLoad) > 0 THEN upsertTools(reg, toolsToLoad) ELSE reg
        actorTools == IF Len(actorsToLoad) > 0 THEN getActorsAsTools(actorsToLoad) ELSE <<>>
        reg2 == IF Len(actorTools) > 0 THEN upsertTools(reg1, actorTools) ELSE reg1
    IN [reg |-> reg2,
        delivered |-> IF Len(actorTools) > 0 THEN notifyToolsChangedHandler(reg2, registered)
                      ELSE <<>>]

-----------------------------------------------------------------------------
(* The state after construction *)

NoOp ==
    [op |-> "none", session |-> "s1", entries |-> <<>>, names |-> <<>>, notify |-> FALSE,
     hadHandler |-> FALSE, pre |-> [s \in Sessions |-> <<>>], returned |-> <<>>,
     delivered |-> <<>>, threw |-> FALSE, detached |-> FALSE]

RegistriesEmpty ==
    /\ tools = [s \in Sessions |-> <<>>]
    /\ handler = [s \in Sessions |-> FALSE]
    /\ closed = [s \in Sessions |-> FALSE]
    /\ lastOp = NoOp
    /\ ajvAlive = [n \in InternalToolNames |-> TRUE]
    /\ ops = 0

\* no entry: what Array.find returns when nothing matches
NoTool ==
    [type |-> "none", name |-> <<>>, actorFullName |-> <<>>, actorId |-> <<>>,
     originToolName |-> <<>>, memoryMbytes |-> 0, rev |-> 0]

NoCall ==
    [pc |-> "idle", name |-> <<>>, hasToken |-> FALSE, args |-> "missing", target |-> <<>>,
     trace |-> <<>>, tool |-> NoTool, outcome |-> "none", signal |-> FALSE,
     firedBeforeCompletion |-> FALSE, listener |-> FALSE, abortPending |-> FALSE,
     platformError |-> FALSE, handlerInvoked |-> FALSE, jobsStarted |-> 0, connsOpened |-> 0,
     connOpen |-> FALSE, firedAt |-> "none"]

NoRun == [status |-> "none", abortRequests |-> 0]

CallsIdle ==
    /\ calls = [r \in Slots |-> NoCall]
    /\ runs = [r \in Slots |-> NoRun]

\* the operations that own connections and runs
TaskIds == {"t1", "t2"}

NoTask ==
    [kind |-> "none", pc |-> "idle", todo |-> <<>>, pending |-> 0, client |-> 0, run |-> 0,
     signal |-> FALSE, listener |-> FALSE, abortPending |-> FALSE, attempts |-> <<>>,
     connect |-> "none", outcome |-> "none", startRequests |-> 0, callRequests |-> 0]

ResourcesIdle ==
    /\ tasks = [t \in TaskIds |-> NoTask]
    /\ conns = <<>>
    /\ jobs = <<>>

\* an exception raised while a call executes: none, an ApifyApiError or another Error
NoException == [kind |-> "none", message |-> <<>>]

NoReply ==
    [sent |-> FALSE, requested |-> <<>>, hasToken |-> FALSE, args |-> "missing",
     exc |-> NoException, reg |-> <<>>, level |-> "info", tool |-> NoTool, error |-> "none",
     message |-> <<>>, result |-> "none", text |-> <<>>, notifications |-> <<>>]

RepliesIdle ==
    /\ logLevel = "info"
    /\ reply = NoReply

NoSeen == [sent |-> FALSE, kind |-> "none", reg |-> <<>>, expected |-> <<>>, mid |-> FALSE]

TurnsIdle ==
    /\ pending = <<>>
    /\ observed = NoSeen

\* the model's cache: new TTLLRUCache(CacheMaxLength, ttlSecs) with a TTL of CacheTtl
\* clock ticks, observed while the clock is below MaxClock
CacheMaxLength == 2
CacheTtl == 2
MaxClock == 3

CacheKeys == 1..(CacheMaxLength + 1)
CacheValues == {"v1", "v2"}

NeverSet == [set |-> FALSE, value |-> "null", at |-> 0, evicted |-> FALSE, missed |-> FALSE,
             over |-> "no"]

NoGet == [sent |-> FALSE, key |-> 0, value |-> "null", now |-> 0, last |-> NeverSet,
          present |-> FALSE]

CacheIdle ==
    /\ cache = <<>>
    /\ clock = 0
    /\ history = [k \in CacheKeys |-> NeverSet]
    /\ got = NoGet

NoSchema == [required |-> <<>>, properties |-> 0]

NotAdapted == [done |-> FALSE, pass |-> "none", threw |-> FALSE, properties |-> 0,
               before |-> <<>>]

NoArgs == [sent |-> FALSE, args |-> <<>>, decoded |-> <<>>, bad |-> {}, valid |-> FALSE]

SchemaIdle ==
    /\ heap = <<>>
    /\ schema = NoSchema
    /\ adapted = NotAdapted
    /\ callArgs = NoArgs
    /\ toolLoads = <<>>

\* no call-actor call was made
NoStep == [actor |-> <<>>, step |-> "none", answer |-> "none", runStarted |-> FALSE,
           infoBefore |-> FALSE]

StepsIdle ==
    /\ infoMade = {}
    /\ actorRuns = <<>>
    /\ lastStep = NoStep

MemoryIdle == starts = <<>>

\* nothing was logged and no level was requested
NoLog == [op |-> "none", level |-> "", before |-> "", forwarded |-> <<>>]

LoggingIdle == logged = NoLog

\* statusMessage of a run that has none (undefined)
Absent == "<undefined>"

NoTracker ==
    [started |-> FALSE, interval |-> FALSE, lastStatus |-> "", lastStatusMessage |-> "",
     currentProgress |-> 0, ended |-> FALSE, terminalSeen |-> FALSE, observed |-> <<>>]

ProgressIdle ==
    /\ tracker = NoTracker
    /\ polls = <<>>
    /\ remoteRun = [status |-> "RUNNING", statusMessage |-> Absent]

MoreIdle == MemoryIdle /\ LoggingIdle /\ ProgressIdle

ExtIdle ==
    /\ ResourcesIdle /\ RepliesIdle /\ TurnsIdle /\ CacheIdle /\ SchemaIdle /\ StepsIdle
    /\ MoreIdle

ServerIdle == RegistriesEmpty /\ CallsIdle /\ ExtIdle

LoaderInit ==
    /\ stage = "raw"
    /\ rawInput \in RawInputs
    /\ input = rawInput
    /\ actorNames = <<>>
    /\ loaded = <<>>
    /\ ServerIdle

\* mcp.ts / stdio.ts: the input is normalized ...
ProcessInput ==
    /\ stage = "raw"
    /\ input' = processInput(rawInput)
    /\ stage' = "normalized"
    /\ UNCHANGED <<rawInput, actorNames, loaded>>
    /\ UNCHANGED <<serverVars, extVars>>

\* ... and the loader is given the normalized input
LoadTools ==
    /\ stage = "normalized"
    /\ actorNames' = actorNamesToLoad(input)
    /\ loaded' = loadToolsFromInput(input)
    /\ stage' = "loaded"
    /\ UNCHANGED <<rawInput, input>>
    /\ UNCHANGED <<serverVars, extVars>>

\* the loader called on an Input as it is
LoadToolsDirect ==
    /\ stage = "raw"
    /\ IsProcessedShape(rawInput)
    /\ actorNames' = actorNamesToLoad(rawInput)
    /\ loaded' = loadToolsFromInput(rawInput)
    /\ stage' = "loadedDirect"
    /\ UNCHANGED <<rawInput, input>>
    /\ UNCHANGED <<serverVars, extVars>>

LoaderNext == ProcessInput \/ LoadTools \/ LoadToolsDirect

SpecLoader == LoaderInit /\ [][LoaderNext]_vars

-----------------------------------------------------------------------------
(* Claims about the loader *)

\* the Input the loader was called with
LoaderInput == IF stage = "loadedDirect" THEN rawInput ELSE input

HasLoaded == stage \in {"loaded", "loadedDirect"}

\* the selectors that name a category, the deprecated category or an internal tool
KnownSelectors == {CatPreview} \cup Range(ToolCategoryKeys) \cup InternalToolNames

\* the backend names found in a selector list
BackendNamesIn(value) ==
    IF value.kind = "undefined" THEN {}
    ELSE {Trim(x) : x \in Range(value.v)} \ (KnownSelectors \cup {<<>>})

\* C5: the backend names the loader resolves are the backend-names field whenever it
\* is present (empty meaning none), otherwise the backend names among the selectors
\* if there are any, otherwise the default set if no selector list was given and
\* dynamic addition is off, otherwise none.
C5_BackendNamePriority ==
    HasLoaded =>
        Range(actorNames) =
            IF LoaderInput.actors.kind # "undefined" THEN Range(LoaderInput.actors.v)
            ELSE IF BackendNamesIn(LoaderInput.tools) # {} THEN BackendNamesIn(LoaderInput.tools)
            ELSE IF LoaderInput.tools.kind = "undefined"
                    /\ ~(LoaderInput.enableAddingActors.kind = "boolean" /\ LoaderInput.enableAddingActors.b)
                 THEN Range(DefaultActors)
            ELSE {}

\* an explicit backend-names field wins over a backend named among the selectors
C5_Witness ==
    /\ stage = "loadedDirect"
    /\ rawInput.actors.kind = "array" /\ rawInput.actors.v = <<ActorMcp>>
    /\ rawInput.tools.kind = "array" /\ rawInput.tools.v = <<ActorAB>>
    /\ actorNames = <<ActorMcp>>

IsAbsent(value) == value.kind = "undefined"

\* an empty string or an empty list
IsExplicitEmpty(value) == value.kind \in {"array", "string"} /\ value.v = <<>>

IsEmptyList(value) == value.kind = "array" /\ value.v = <<>>

BackendEntries(l) == {i \in 1..Len(l) : l[i].type \in {"actor", "actor-mcp"}}

HasBackendNames(value) ==
    /\ value.kind # "undefined"
    /\ \E x \in (IF value.kind = "array" THEN Range(value.v) ELSE Range(Split(value.v, ","))) :
            Trim(x) # <<>>

CountName(l, n) == Cardinality({i \in 1..Len(l) : l[i].name = n})

\* C7: a resolved set that holds call-actor, an Actor tool or add-actor holds
\* get-actor-output exactly once.
C7_ActorOutputOnce ==
    HasLoaded =>
        ((HasName(loaded, ACTOR_CALL) \/ HasName(loaded, ACTOR_ADD)
            \/ \E i \in 1..Len(loaded) : loaded[i].type = "actor")
         => CountName(loaded, ACTOR_OUTPUT_GET) = 1)

\* the storage category brings get-actor-output itself, add-actor brings it again
C7_Witness ==
    /\ stage = "loaded"
    /\ HasName(loaded, ACTOR_ADD)
    /\ HasName(loaded, DATASET_GET)
    /\ CountName(loaded, ACTOR_OUTPUT_GET) = 1

\* the selector list names add-actor, or the category that holds it
SelectsAddActor(value) ==
    /\ value.kind # "undefined"
    /\ \E x \in Range(value.v) : Trim(x) \in {ACTOR_ADD, CatExperimental}

\* C26: with dynamic addition enabled, the loader adds add-actor to the resolved set
\* when neither the selector list nor the backend-names field is explicitly empty, and
\* does not add it when one of them is: add-actor is then in the resolved set only
\* if the selectors themselves name it.
C26_AddActorUnlessEmptied ==
    (HasLoaded /\ LoaderInput.enableAddingActors.kind = "boolean"
               /\ LoaderInput.enableAddingActors.b)
        => IF IsEmptyList(LoaderInput.tools) \/ IsEmptyList(LoaderInput.actors)
           THEN HasName(loaded, ACTOR_ADD) <=> SelectsAddActor(LoaderInput.tools)
           ELSE HasName(loaded, ACTOR_ADD)

\* selectors that do not name add-actor, no backend names: add-actor is added
C26_Witness ==
    /\ stage = "loadedDirect"
    /\ rawInput.enableAddingActors = Bool(TRUE)
    /\ rawInput.tools = Arr(<<CatDocs>>)
    /\ IsAbsent(rawInput.actors)
    /\ HasName(loaded, ACTOR_ADD)
    /\ HasName(loaded, DOCS_SEARCH)

\* backend names explicitly empty: add-actor is not added
C26_WitnessEmptied ==
    /\ stage = "loadedDirect"
    /\ rawInput.enableAddingActors = Bool(TRUE)
    /\ rawInput.tools = Arr(<<CatDocs>>)
    /\ IsEmptyList(rawInput.actors)
    /\ ~HasName(loaded, ACTOR_ADD)
    /\ HasName(loaded, DOCS_SEARCH)

\* the resolved names that no Actor of the platform has
MissingNames == {n \in Range(actorNames) : ~getActorDefinition(n).found}

\* the tools of an Actor that exists are in the list: its own tool, or the tools of
\* its MCP server
ToolsOfActorIn(l, def) ==
    IF def.webServerMcpPath = <<>>
    THEN \E i \in 1..Len(l) : l[i].type = "actor" /\ l[i].actorFullName = def.actorFullName
    ELSE \A j \in 1..Len(def.remoteTools) :
            \E i \in 1..Len(l) : /\ l[i].type = "actor-mcp"
                                 /\ l[i].actorId = def.id
                                 /\ l[i].originToolName = def.remoteTools[j]

\* C27: a resolved name that no Actor has is dropped: the loading completes, no tool
\* stands for the name, and the tools of every other resolved name and every selected
\* internal tool are in the resolved set.
C27_UnknownNameDropped ==
    HasLoaded =>
        /\ \A n \in MissingNames :
                ~\E i \in 1..Len(loaded) :
                    loaded[i].type \in {"actor", "actor-mcp"}
                    /\ (loaded[i].name = actorNameToToolName(n) \/ loaded[i].actorFullName = n)
        /\ \A n \in Range(actorNames) \ MissingNames :
                ToolsOfActorIn(loaded, getActorDefinition(n))
        /\ \A i \in 1..Len(composeInternal(LoaderInput)) :
                HasName(loaded, composeInternal(LoaderInput)[i].name)

\* a name that no Actor has, next to one that an Actor has and to add-actor
C27_Witness ==
    /\ stage = "loadedDirect"
    /\ rawInput.tools = Arr(<<ActorNone, ActorAB>>)
    /\ rawInput.enableAddingActors = Bool(TRUE)
    /\ MissingNames = {ActorNone}
    /\ HasName(loaded, actorNameToToolName(ActorAB))
    /\ HasName(loaded, ACTOR_ADD)

-----------------------------------------------------------------------------
(* The registry of one server instance under its public operations *)

NoInput == [actors |-> UNDEF, enableActorAutoLoading |-> UNDEF, enableAddingActors |-> UNDEF,
            tools |-> UNDEF]

LoaderIdle ==
    /\ stage = "idle"
    /\ rawInput = NoInput
    /\ input = NoInput
    /\ actorNames = <<>>
    /\ loaded = <<>>

\* the instance the operations are applied to
RegistrySessions == {"s1"}

\* entries handed to upsertTools: an internal tool, two entries of one Actor tool,
\* the tools of two Actor MCP servers
EntryUniverse ==
    {InternalEntry(ACTOR_ADD), ActorToolEntry(getActorDefinition(ActorAB), 1),
     ActorToolEntry(getActorDefinition(ActorAB), 2)}
        \cup Range(getActorsAsTools(<<ActorMcp, ActorMcp2>>))

\* names handed to removeToolsByName: three that may be registered, one that never is
NameUniverse ==
    {ACTOR_ADD, actorNameToToolName(ActorAB), getActorsAsTools(<<ActorMcp>>)[1].name, ActorNone}

OpRecord(op, s, entries, names, notify, returned, delivered, threw) ==
    [op |-> op, session |-> s, entries |-> entries, names |-> names, notify |-> notify,
     hadHandler |-> handler[s], pre |-> tools, returned |-> returned,
     delivered |-> delivered, threw |-> threw,
     \* the handler has been unregistered and none registered since
     detached |-> IF threw THEN lastOp.detached
                  ELSE IF op = "unregisterToolsChangedHandler" THEN TRUE
                  ELSE IF op = "registerToolsChangedHandler" THEN FALSE
                  ELSE lastOp.detached]

RegistryInit == LoaderIdle /\ ServerIdle

\* upsertTools(tools, shouldNotifyToolsChangedHandler)
UpsertTools(s, entries, notify) ==
    /\ ops < MaxOps
    /\ LET reg == upsertTools(tools[s], entries)
       IN /\ tools' = [tools EXCEPT ![s] = reg]
          /\ lastOp' = OpRecord("upsertTools", s, entries, <<>>, notify, entries,
                                IF notify THEN notifyToolsChangedHandler(reg, handler[s]) ELSE <<>>,
                                FALSE)
    /\ ops' = ops + 1
    /\ UNCHANGED <<handler, closed, ajvAlive, calls, runs>>
    /\ UNCHANGED <<loaderVars, extVars>>

\* removeToolsByName(toolNames, shouldNotifyToolsChangedHandler)
RemoveToolsByName(s, toolNames, notify) ==
    /\ ops < MaxOps
    /\ LET res == removeToolsByName(tools[s], toolNames)
       IN /\ tools' = [tools EXCEPT ![s] = res.reg]
          /\ lastOp' = OpRecord("removeToolsByName", s, <<>>, toolNames, notify, res.removedTools,
                                IF removeNotifies(res.removedTools, notify)
                                THEN notifyToolsChangedHandler(res.reg, handler[s]) ELSE <<>>,
                                FALSE)
    /\ ops' = ops + 1
    /\ UNCHANGED <<handler, closed, ajvAlive, calls, runs>>
    /\ UNCHANGED <<loaderVars, extVars>>

\* registerToolsChangedHandler: throws when one is registered already
RegisterToolsChangedHandler(s) ==
    /\ ops < MaxOps
    /\ handler' = [handler EXCEPT ![s] = TRUE]
    /\ lastOp' = OpRecord("registerToolsChangedHandler", s, <<>>, <<>>, FALSE, <<>>, <<>>, handler[s])
    /\ ops' = ops + 1
    /\ UNCHANGED <<tools, closed, ajvAlive, calls, runs>>
    /\ UNCHANGED <<loaderVars, extVars>>

\* unregisterToolsChangedHandler: throws when none is registered
UnregisterToolsChangedHandler(s) ==
    /\ ops < MaxOps
    /\ handler' = [handler EXCEPT ![s] = FALSE]
    /\ lastOp' = OpRecord("unregisterToolsChangedHandler", s, <<>>, <<>>, FALSE, <<>>, <<>>, ~handler[s])
    /\ ops' = ops + 1
    /\ UNCHANGED <<tools, closed, ajvAlive, calls, runs>>
    /\ UNCHANGED <<loaderVars, extVars>>

\* loadActorsAsTools(actorIdsOrNames): the Actors' tools are upserted with notification
LoadActorsAsTools(s, actorIdsOrNames) ==
    /\ ops < MaxOps
    /\ LET actorTools == getActorsAsTools(actorIdsOrNames)
           reg == IF Len(actorTools) > 0 THEN upsertTools(tools[s], actorTools) ELSE tools[s]
       IN /\ tools' = [tools EXCEPT ![s] = reg]
          /\ lastOp' = OpRecord("loadActorsAsTools", s, actorTools, actorIdsOrNames, TRUE, actorTools,
                                IF Len(actorTools) > 0
                                THEN notifyToolsChangedHandler(reg, handler[s]) ELSE <<>>,
                                FALSE)
    /\ ops' = ops + 1
    /\ UNCHANGED <<handler, closed, ajvAlive, calls, runs>>
    /\ UNCHANGED <<loaderVars, extVars>>

\* close: the compiled validator of every registered tool object is set to null, the
\* Map is cleared and the handler unregistered.  The internal tools' objects are the
\* module-level ones every instance registers.
Close(s) ==
    /\ ~closed[s]
    /\ ajvAlive' = [n \in InternalToolNames |->
                        IF n \in Range(listInternalToolNames(tools[s])) THEN FALSE ELSE ajvAlive[n]]
    /\ tools' = [tools EXCEPT ![s] = <<>>]
    /\ handler' = [handler EXCEPT ![s] = FALSE]
    /\ closed' = [closed EXCEPT ![s] = TRUE]
    /\ lastOp' = OpRecord("close", s, <<>>, <<>>, FALSE, <<>>, <<>>, FALSE)
    /\ UNCHANGED <<calls, runs, ops>>
    /\ UNCHANGED <<loaderVars, extVars>>

\* the names of the registry are stored and the registry is emptied (tools.clear())
ClearTools(s) ==
    /\ ops < MaxOps
    /\ tools[s] # <<>>
    /\ tools' = [tools EXCEPT ![s] = <<>>]
    /\ lastOp' = OpRecord("clear", s, tools[s], listAllToolNames(tools[s]), FALSE, <<>>, <<>>, FALSE)
    /\ ops' = ops + 1
    /\ UNCHANGED <<handler, closed, ajvAlive, calls, runs>>
    /\ UNCHANGED <<loaderVars, extVars>>

\* loadToolsByName(toolNames) with the names stored before the registry was emptied
LoadToolsByName(s) ==
    /\ ops < MaxOps
    /\ lastOp.op = "clear"
    /\ lastOp.session = s
    /\ LET res == loadToolsByName(tools[s], lastOp.names, handler[s])
       IN /\ tools' = [tools EXCEPT ![s] = res.reg]
          /\ lastOp' = OpRecord("loadToolsByName", s, lastOp.entries, lastOp.names, FALSE,
                                res.reg, res.delivered, FALSE)
    /\ ops' = ops + 1
    /\ UNCHANGED <<handler, closed, ajvAlive, calls, runs>>
    /\ UNCHANGED <<loaderVars, extVars>>

RegistryNext ==
    \E s \in RegistrySessions :
        \/ \E entries \in ListsOver(EntryUniverse, MaxBatch), notify \in BOOLEAN :
                UpsertTools(s, entries, notify)
        \/ \E toolNames \in ListsOver(NameUniverse, MaxBatch), notify \in BOOLEAN :
                RemoveToolsByName(s, toolNames, notify)
        \/ RegisterToolsChangedHandler(s)
        \/ UnregisterToolsChangedHandler(s)
        \/ \E actorIdsOrNames \in ListsOver({ActorAB, ActorMcp, ActorNone}, MaxActors) :
                LoadActorsAsTools(s, actorIdsOrNames)
        \/ Close(s)
        \/ ClearTools(s)
        \/ LoadToolsByName(s)

SpecRegistry == RegistryInit /\ [][RegistryNext]_vars

-----------------------------------------------------------------------------
(* Claims about the registry *)

NamesOf(reg) == {reg[i].name : i \in 1..Len(reg)}

\* the entry of the given name handed over last
LastWithName(entries, n) ==
    LET last == CHOOSE i \in 1..Len(entries) :
                    /\ entries[i].name = n
                    /\ \A j \in (i + 1)..Len(entries) : entries[j].name # n
    IN entries[last]

\* the registry the last operation was applied to, before and after
PreRegistry == lastOp.pre[lastOp.session]
PostRegistry == tools[lastOp.session]

\* C8: the registry holds one entry per tool name; after an upsert each name handed
\* over is bound to the entry handed over last for it, every other name keeps its
\* entry, and upserting a name that exists raises no error.
C8_UpsertLastWins ==
    /\ \A s \in Sessions : \A i, j \in 1..Len(tools[s]) :
            tools[s][i].name = tools[s][j].name => i = j
    /\ lastOp.op = "upsertTools" =>
          /\ NamesOf(PostRegistry) = NamesOf(PreRegistry) \cup NamesOf(lastOp.entries)
          /\ \A n \in NamesOf(lastOp.entries) :
                PostRegistry[IndexOfName(PostRegistry, n)] = LastWithName(lastOp.entries, n)
          /\ \A i \in 1..Len(PreRegistry) :
                PreRegistry[i].name \notin NamesOf(lastOp.entries)
                    => PostRegistry[IndexOfName(PostRegistry, PreRegistry[i].name)] = PreRegistry[i]
          /\ ~lastOp.threw

\* a registered name is upserted twice in one batch with different entries
C8_Witness ==
    /\ lastOp.op = "upsertTools"
    /\ Len(lastOp.entries) = 2
    /\ lastOp.entries[1].name = lastOp.entries[2].name
    /\ lastOp.entries[1] # lastOp.entries[2]
    /\ lastOp.entries[1].name \in NamesOf(PreRegistry)
    /\ PostRegistry[IndexOfName(PostRegistry, lastOp.entries[2].name)] = lastOp.entries[2]
    /\ Len(PostRegistry) = Len(PreRegistry)

\* C9: a remove deletes exactly the requested names that were registered, returns
\* exactly those names, leaves every other entry as it was, and the handler is
\* notified only if notification was requested and at least one name was removed.
C9_RemoveExactly ==
    lastOp.op = "removeToolsByName" =>
        LET asked == Range(lastOp.names)
            present == asked \cap NamesOf(PreRegistry)
            Others(e) == e.name \notin asked
        IN /\ PostRegistry = SelectSeq(PreRegistry, Others)
           /\ Range(lastOp.returned) = present
           /\ Len(lastOp.returned) = Cardinality(present)
           /\ Len(lastOp.delivered) <= 1
           /\ lastOp.delivered # <<>> => (lastOp.notify /\ present # {})

\* one registered and one unknown name are asked for, with notification
C9_Witness ==
    /\ lastOp.op = "removeToolsByName"
    /\ lastOp.names = <<actorNameToToolName(ActorAB), ActorNone>>
    /\ lastOp.returned = <<actorNameToToolName(ActorAB)>>
    /\ Len(PreRegistry) = 2
    /\ Len(PostRegistry) = 1
    /\ lastOp.notify
    /\ Len(lastOp.delivered) = 1

\* the last operation changed the registry through upsertTools or a remove
MutatedWithNotice ==
    /\ lastOp.notify
    /\ lastOp.hadHandler
    /\ \/ lastOp.op = "upsertTools"
       \/ lastOp.op \in {"removeToolsByName", "loadActorsAsTools"} /\ lastOp.returned # <<>>

\* C10: a mutation with notification requested and a handler registered calls the
\* handler exactly once, with the names of the registry as it is after the mutation:
\* the name of every internal tool, the Actor full name of every Actor tool and one
\* identifier per distinct Actor MCP server.
C10_NotifyCompleteList ==
    MutatedWithNotice =>
        LET reg == PostRegistry
            internal == {i \in 1..Len(reg) : reg[i].type = "internal"}
            actor == {i \in 1..Len(reg) : reg[i].type = "actor"}
            servers == {reg[i].actorId : i \in {j \in 1..Len(reg) : reg[j].type = "actor-mcp"}}
        IN /\ Len(lastOp.delivered) = 1
           /\ Range(lastOp.delivered[1]) =
                {reg[i].name : i \in internal} \cup {reg[i].actorFullName : i \in actor} \cup servers
           /\ Len(lastOp.delivered[1]) =
                Cardinality(internal) + Cardinality(actor) + Cardinality(servers)

\* the registry holds an internal tool, an Actor tool and two tools of one server
C10_Witness ==
    /\ MutatedWithNotice
    /\ \E i, j, k, l \in 1..Len(PostRegistry) :
            /\ PostRegistry[i].type = "internal"
            /\ PostRegistry[j].type = "actor"
            /\ PostRegistry[k].type = "actor-mcp" /\ PostRegistry[l].type = "actor-mcp"
            /\ k # l /\ PostRegistry[k].actorId = PostRegistry[l].actorId
    /\ Len(lastOp.delivered) = 1
    /\ Len(lastOp.delivered[1]) = 3

\* C28: after the tools-changed handler has been unregistered, and until one is
\* registered again, no handler is held and no upsert, remove or load calls it,
\* whether or not notification is requested and the registry changes.
C28_SilentAfterUnregister ==
    lastOp.detached =>
        /\ ~handler[lastOp.session]
        /\ lastOp.op \in {"upsertTools", "removeToolsByName", "loadActorsAsTools"}
                => lastOp.delivered = <<>>

\* registered, unregistered, then an upsert with notification that changes the registry
C28_Witness ==
    /\ lastOp.detached
    /\ lastOp.op = "upsertTools"
    /\ lastOp.notify
    /\ PostRegistry # PreRegistry
    /\ lastOp.delivered = <<>>
    /\ ops = MaxOps

\* C29: the names listAllToolNames reports restore the registry: loadToolsByName with
\* that list, on the emptied registry, gives a registry that reports the same list.
C29_NamesRestoreRegistry ==
    lastOp.op = "loadToolsByName" =>
        /\ lastOp.names = listAllToolNames(lastOp.entries)
        /\ listAllToolNames(PostRegistry) = lastOp.names

\* a registry of an internal tool and of one tool of a server of two is restored
C29_Witness ==
    /\ lastOp.op = "loadToolsByName"
    /\ Len(lastOp.entries) = 2
    /\ \E i, j \in 1..2 : /\ lastOp.entries[i].type = "internal"
                          /\ lastOp.entries[j].type = "actor-mcp"
    /\ Len(PostRegistry) = 3
    /\ listAllToolNames(PostRegistry) = lastOp.names

-----------------------------------------------------------------------------
(* Actors with similar names loaded into one registry *)

NamesInit == RegistryInit

NamesNext ==
    \E s \in RegistrySessions :
        \E actorName \in NamedActors \cup {ActorAB} : LoadActorsAsTools(s, <<actorName>>)

SpecNames == NamesInit /\ [][NamesNext]_vars

\* the Actors that have a tool in a registry
ActorsOf(reg) == {reg[i].actorFullName : i \in 1..Len(reg)}

\* C40: distinct Actors get distinct tool names: loading an Actor never replaces the
\* tool of another Actor in the registry.
C40_DistinctActorsDistinctNames ==
    \A s \in RegistrySessions :
        (lastOp.op = "loadActorsAsTools" /\ lastOp.session = s)
            => ActorsOf(lastOp.pre[s]) \subseteq ActorsOf(tools[s])

\* full names without dots, without the replacement texts and short enough to be kept whole
IsPlainName(actorName) ==
    /\ Len(actorName) + 6 <= ToolNameMaxLength
    /\ \A i \in 1..Len(actorName) : actorName[i] \notin {".", "-"}

\* Actors with plain names never replace one another
PlainNamesKept ==
    \A s \in RegistrySessions :
        (/\ lastOp.op = "loadActorsAsTools" /\ lastOp.session = s
         /\ \A i \in 1..Len(lastOp.names) : IsPlainName(lastOp.names[i]))
            => {a \in ActorsOf(lastOp.pre[s]) : IsPlainName(a)} \subseteq ActorsOf(tools[s])

-----------------------------------------------------------------------------
(* mcp/server.ts: the tools/call request handler, up to the dispatch *)

StartsWith(s, prefix) == Len(s) >= Len(prefix) /\ SubSeq(s, 1, Len(prefix)) = prefix

\* String.split with a separator of any length
RECURSIVE SplitOnAcc(_, _, _)
SplitOnAcc(s, sep, cur) ==
    IF s = <<>> THEN <<cur>>
    ELSE IF StartsWith(s, sep)
         THEN <<cur>> \o SplitOnAcc(SubSeq(s, Len(sep) + 1, Len(s)), sep, <<>>)
         ELSE SplitOnAcc(Tail(s), sep, Append(cur, Head(s)))

SplitOn(s, sep) == SplitOnAcc(s, sep, <<>>)

LocalPrefix == <<"l", "o", "c", "a", "l", "_", "_">>

\* "remove the 'local__apify-actors__' prefix"
stripLocalPrefix(name) ==
    IF StartsWith(name, LocalPrefix)
    THEN LET parts == SplitOn(name, <<"_", "_">>)
         IN IF Len(parts) > 1 THEN parts[Len(parts)] ELSE name
    ELSE name

\* "Find tool by name or actor full name"
findTool(reg, name) ==
    LET Matches(e) == e.name = name \/ (e.type = "actor" /\ e.actorFullName = name)
        found == SelectSeq(reg, Matches)
    IN IF found = <<>> THEN NoTool ELSE Head(found)

StageOrder == <<"received", "authenticated", "resolved", "validated", "dispatched">>

Prefix(trace, tool, outcome) == [trace |-> trace, tool |-> tool, outcome |-> outcome]

\* the handler dispatching without validating the arguments
callToolPrefix_NoValidation(reg, hasToken, requested, args, alive) ==
    LET tool == findTool(reg, stripLocalPrefix(requested))
    IN IF ~hasToken THEN Prefix(SubSeq(StageOrder, 1, 1), NoTool, "InvalidParams")
       ELSE IF tool = NoTool THEN Prefix(SubSeq(StageOrder, 1, 2), NoTool, "InvalidParams")
       ELSE IF args = "missing" THEN Prefix(SubSeq(StageOrder, 1, 3), tool, "InvalidParams")
       ELSE Prefix(<<"received", "authenticated", "resolved", "dispatched">>, tool, "none")

\* the handler from the token check to the validation; `alive` tells for each
\* internal tool object whether its ajvValidate is still a function (calling null
\* throws a TypeError outside the try block)
callToolPrefix(reg, hasToken, requested, args, alive) ==
    LET tool == findTool(reg, stripLocalPrefix(requested))
    IN IF ~hasToken THEN Prefix(SubSeq(StageOrder, 1, 1), NoTool, "InvalidParams")
       ELSE IF tool = NoTool THEN Prefix(SubSeq(StageOrder, 1, 2), NoTool, "InvalidParams")
       ELSE IF args = "missing" THEN Prefix(SubSeq(StageOrder, 1, 3), tool, "InvalidParams")
       ELSE IF tool.type = "internal" /\ ~alive[tool.name]
            THEN Prefix(SubSeq(StageOrder, 1, 3), tool, "TypeError")
       ELSE IF args = "invalid" THEN Prefix(SubSeq(StageOrder, 1, 3), tool, "InvalidParams")
       ELSE Prefix(StageOrder, tool, "none")

\* the error a failed Actor call ends with: callActorGetDataset rethrows everything as
\* a plain Error; the call-actor tool catches it and answers with a text, the handler
\* of an Actor tool turns it into InternalError
\* the handler's catch block: an ApifyApiError becomes a text result
handlerCatch(isApifyApiError) == IF isApifyApiError THEN "text" ELSE "InternalError"

\* how a call ends when callActorGetDataset throws: it rethrows everything as a plain
\* Error; the call-actor tool catches that and answers with a text, the handler's
\* catch block gets it from an Actor tool
jobErrorOutcome(tool) == IF tool.type = "internal" THEN "text" ELSE handlerCatch(FALSE)

-----------------------------------------------------------------------------
(* Sessions serving tools/call requests *)

\* each request slot belongs to one session
SlotSession(r) == IF r = "r1" THEN "s1" ELSE "s2"

\* the Inputs a session is started with
InputFull ==
    [actors |-> UNDEF, enableActorAutoLoading |-> UNDEF, enableAddingActors |-> Bool(TRUE),
     tools |-> Arr(<<CatPreview, ActorAB, ActorMcp>>)]
InputAddActor ==
    [actors |-> UNDEF, enableActorAutoLoading |-> UNDEF, enableAddingActors |-> Bool(FALSE),
     tools |-> Arr(<<ACTOR_ADD>>)]
\* the first session serves every kind of tool, the second one internal tools only
SessionInput(s) == IF s = "s1" THEN InputFull ELSE InputAddActor

\* the names requests ask for
RequestNames ==
    {ACTOR_ADD, ACTOR_CALL, ACTOR_OUTPUT_GET, actorNameToToolName(ActorAB), ActorAB,
     getActorsAsTools(<<ActorMcp>>)[1].name, ActorNone,
     LocalPrefix \o <<"x", "_", "_">> \o actorNameToToolName(ActorAB)}

RequestArgs == {"missing", "invalid", "valid"}

\* the Actor an add-actor request names
AddTargets == {ActorAB, ActorCD}

Finish(c, outcome) == [c EXCEPT !.pc = "done", !.outcome = outcome]

Init == LoaderIdle /\ ServerIdle

\* stdio.ts / mcp.ts: the tools of the normalized input are loaded and upserted
LoadSession(s) ==
    /\ ~closed[s]
    /\ tools[s] = <<>>
    /\ LET entries == loadToolsFromInput(SessionInput(s))
       IN /\ tools' = [tools EXCEPT ![s] = upsertTools(tools[s], entries)]
          /\ lastOp' = OpRecord("upsertTools", s, entries, <<>>, FALSE, entries, <<>>, FALSE)
    /\ UNCHANGED <<handler, closed, ajvAlive, calls, runs, ops>>
    /\ UNCHANGED <<loaderVars, extVars>>

\* the dispatch: what the handler does with a validated call before its first await
Dispatch(c, reg) ==
    CASE c.tool.type = "internal" /\ c.tool.name = ACTOR_ADD ->
            IF c.target \in Range(listAllToolNames(reg))
            THEN Finish([c EXCEPT !.handlerInvoked = TRUE], "content")
            ELSE [c EXCEPT !.handlerInvoked = TRUE, !.pc = "adding"]
      [] c.tool.type = "internal" /\ c.tool.name = ACTOR_CALL ->
            [c EXCEPT !.handlerInvoked = TRUE, !.pc = "fetching"]
      [] c.tool.type = "internal" /\ c.tool.name \notin {ACTOR_ADD, ACTOR_CALL} ->
            [c EXCEPT !.handlerInvoked = TRUE, !.pc = "internal"]
      [] c.tool.type = "actor-mcp" ->
            [c EXCEPT !.connsOpened = c.connsOpened + 1, !.pc = "connecting"]
      [] OTHER ->
            [c EXCEPT !.jobsStarted = c.jobsStarted + 1, !.pc = "starting"]

\* a tools/call request arrives: the handler runs up to its first await
CallTool(r, requested, hasToken, args, target) ==
    /\ calls[r].pc = "idle"
    /\ ~closed[SlotSession(r)]
    /\ LET reg == tools[SlotSession(r)]
           pre == callToolPrefix(reg, hasToken, requested, args, ajvAlive)
           c == [NoCall EXCEPT !.name = requested, !.hasToken = hasToken, !.args = args,
                               !.target = target, !.trace = pre.trace, !.tool = pre.tool]
       IN calls' = [calls EXCEPT ![r] =
                        IF pre.outcome # "none" THEN Finish(c, pre.outcome)
                        ELSE Dispatch(c, reg)]
    /\ UNCHANGED <<tools, handler, closed, lastOp, ajvAlive, runs, ops>>
    /\ UNCHANGED <<loaderVars, extVars>>

\* an internal tool's request to the platform returns or raises an ApifyApiError,
\* which the tool lets through
InternalReturns(r, raised) ==
    /\ calls[r].pc = "internal"
    /\ calls' = [calls EXCEPT ![r] =
                    IF raised THEN Finish([@ EXCEPT !.platformError = TRUE], handlerCatch(TRUE))
                    ELSE Finish(@, "content")]
    /\ UNCHANGED <<tools, handler, closed, lastOp, ajvAlive, runs, ops>>
    /\ UNCHANGED <<loaderVars, extVars>>

\* tools/helpers.ts add-actor: loadActorsAsTools returns, or getActorDefinition
\* failed, which rethrows a plain Error
AddActorReturns(r, raised) ==
    /\ calls[r].pc = "adding"
    /\ LET s == SlotSession(r)
           actorTools == getActorsAsTools(<<calls[r].target>>)
           reg == IF Len(actorTools) > 0 THEN upsertTools(tools[s], actorTools) ELSE tools[s]
       IN IF raised
          THEN /\ calls' = [calls EXCEPT ![r] =
                                Finish([@ EXCEPT !.platformError = TRUE], handlerCatch(FALSE))]
               /\ UNCHANGED <<tools, lastOp>>
          ELSE /\ calls' = [calls EXCEPT ![r] = Finish(@, "content")]
               /\ tools' = [tools EXCEPT ![s] = reg]
               /\ lastOp' = OpRecord("loadActorsAsTools", s, actorTools, <<calls[r].target>>, TRUE,
                                     actorTools,
                                     IF Len(actorTools) > 0
                                     THEN notifyToolsChangedHandler(reg, handler[s]) ELSE <<>>,
                                     FALSE)
    /\ UNCHANGED <<handler, closed, ajvAlive, runs, ops>>
    /\ UNCHANGED <<loaderVars, extVars>>

\* tools/actor.ts call-actor: getActorsAsTools returns and the Actor is started, or it
\* failed, which call-actor catches
FetchReturns(r, raised) ==
    /\ calls[r].pc = "fetching"
    /\ calls' = [calls EXCEPT ![r] =
                    IF raised THEN Finish([@ EXCEPT !.platformError = TRUE], "text")
                    ELSE [@ EXCEPT !.jobsStarted = @ + 1, !.pc = "starting"]]
    /\ UNCHANGED <<tools, handler, closed, lastOp, ajvAlive, runs, ops>>
    /\ UNCHANGED <<loaderVars, extVars>>

-----------------------------------------------------------------------------
(* tools/actor.ts callActorGetDataset *)

\* actorClient.start returns the run, or raises.  Only now is the abort listener
\* added to the signal: a signal that has fired already dispatches no event to it.
StartReturns(r, raised) ==
    /\ calls[r].pc = "starting"
    /\ IF raised
       THEN /\ calls' = [calls EXCEPT ![r] =
                            Finish([@ EXCEPT !.platformError = TRUE], jobErrorOutcome(@.tool))]
            /\ UNCHANGED runs
       ELSE /\ calls' = [calls EXCEPT ![r] = [@ EXCEPT !.pc = "waiting", !.listener = TRUE]]
            /\ runs' = [runs EXCEPT ![r] = [@ EXCEPT !.status = "running"]]
    /\ UNCHANGED <<tools, handler, closed, lastOp, ajvAlive, ops>>
    /\ UNCHANGED <<loaderVars, extVars>>

\* the client cancels the request: extra.signal fires.  The listener, if it has been
\* added, asks the platform to abort the run.  No other path of a call reads the signal.
SignalFires(r) ==
    /\ calls[r].pc \in {"fetching", "starting", "waiting", "listing"}
    /\ ~calls[r].signal
    /\ calls' = [calls EXCEPT ![r] =
                    [@ EXCEPT !.signal = TRUE,
                              !.firedAt = calls[r].pc,
                              !.firedBeforeCompletion = runs[r].status \in {"none", "running"},
                              !.abortPending = @ \/ calls[r].listener]]
    /\ runs' = [runs EXCEPT ![r] =
                    IF calls[r].listener
                    THEN [status |-> IF @.status = "running" THEN "aborted" ELSE @.status,
                          abortRequests |-> @.abortRequests + 1]
                    ELSE @]
    /\ UNCHANGED <<tools, handler, closed, lastOp, ajvAlive, ops>>
    /\ UNCHANGED <<loaderVars, extVars>>

\* the platform: the run completes
RunFinishes(r) ==
    /\ runs[r].status = "running"
    /\ runs' = [runs EXCEPT ![r] = [@ EXCEPT !.status = "finished"]]
    /\ UNCHANGED <<tools, handler, closed, lastOp, ajvAlive, calls, ops>>
    /\ UNCHANGED <<loaderVars, extVars>>

\* the abort request returns (an error of it is logged only) and the abort promise
\* resolves: if the race is still open, callActorGetDataset returns null and the
\* handler returns {}
AbortReturns(r, raised) ==
    /\ calls[r].abortPending
    /\ calls' = [calls EXCEPT ![r] =
                    LET c == [@ EXCEPT !.abortPending = FALSE,
                                       !.platformError = @ \/ raised]
                    IN IF c.pc = "waiting" THEN Finish(c, "empty") ELSE c]
    /\ UNCHANGED <<tools, handler, closed, lastOp, ajvAlive, runs, ops>>
    /\ UNCHANGED <<loaderVars, extVars>>

\* waitForFinish returns the run once it has reached a terminal status, or raises
WaitReturns(r, raised) ==
    /\ calls[r].pc = "waiting"
    /\ raised \/ runs[r].status \in {"finished", "aborted"}
    /\ calls' = [calls EXCEPT ![r] =
                    IF raised THEN Finish([@ EXCEPT !.platformError = TRUE], jobErrorOutcome(@.tool))
                    ELSE [@ EXCEPT !.pc = "listing"]]
    /\ UNCHANGED <<tools, handler, closed, lastOp, ajvAlive, runs, ops>>
    /\ UNCHANGED <<loaderVars, extVars>>

\* dataset.listItems and the default build return, or raise
ListReturns(r, raised) ==
    /\ calls[r].pc = "listing"
    /\ calls' = [calls EXCEPT ![r] =
                    IF raised THEN Finish([@ EXCEPT !.platformError = TRUE], jobErrorOutcome(@.tool))
                    ELSE Finish(@, "content")]
    /\ UNCHANGED <<tools, handler, closed, lastOp, ajvAlive, runs, ops>>
    /\ UNCHANGED <<loaderVars, extVars>>

-----------------------------------------------------------------------------
(* mcp/server.ts, mcp/client.ts: a call forwarded to an Actor MCP server *)

\* connectMCPClient: the streamable HTTP transport connects, or the SSE transport is tried
ConnectReturns(r, connected) ==
    /\ calls[r].pc = "connecting"
    /\ calls' = [calls EXCEPT ![r] =
                    IF connected THEN [@ EXCEPT !.pc = "calling", !.connOpen = TRUE]
                    ELSE [@ EXCEPT !.pc = "connectingSSE", !.connsOpened = @ + 1]]
    /\ UNCHANGED <<tools, handler, closed, lastOp, ajvAlive, runs, ops>>
    /\ UNCHANGED <<loaderVars, extVars>>

\* the SSE transport connects, or connectMCPClient throws
ConnectSSEReturns(r, connected) ==
    /\ calls[r].pc = "connectingSSE"
    /\ calls' = [calls EXCEPT ![r] =
                    IF connected THEN [@ EXCEPT !.pc = "calling", !.connOpen = TRUE]
                    ELSE Finish(@, handlerCatch(FALSE))]
    /\ UNCHANGED <<tools, handler, closed, lastOp, ajvAlive, runs, ops>>
    /\ UNCHANGED <<loaderVars, extVars>>

\* client.callTool returns, or fails or times out; the client is closed in `finally`
DownstreamReturns(r, failed) ==
    /\ calls[r].pc = "calling"
    /\ calls' = [calls EXCEPT ![r] =
                    Finish([@ EXCEPT !.connOpen = FALSE],
                           IF failed THEN handlerCatch(FALSE) ELSE "content")]
    /\ UNCHANGED <<tools, handler, closed, lastOp, ajvAlive, runs, ops>>
    /\ UNCHANGED <<loaderVars, extVars>>

Next ==
    \/ \E s \in Sessions : LoadSession(s) \/ Close(s)
    \/ \E r \in Slots, requested \in RequestNames, hasToken \in BOOLEAN, args \in RequestArgs :
            \E target \in (IF requested = ACTOR_ADD THEN AddTargets ELSE {<<>>}) :
                CallTool(r, requested, hasToken, args, target)
    \/ \E r \in Slots : SignalFires(r) \/ RunFinishes(r)
    \/ \E r \in Slots, raised \in BOOLEAN :
            \/ InternalReturns(r, raised)
            \/ AddActorReturns(r, raised)
            \/ FetchReturns(r, raised)
            \/ StartReturns(r, raised)
            \/ AbortReturns(r, raised)
            \/ WaitReturns(r, raised)
            \/ ListReturns(r, raised)
            \/ ConnectReturns(r, ~raised)
            \/ ConnectSSEReturns(r, ~raised)
            \/ DownstreamReturns(r, raised)

Spec == Init /\ [][Next]_vars

-----------------------------------------------------------------------------
(* Claims about tools/call *)

\* C1: a call of an Actor tool whose cancellation signal fired before the run
\* completed has asked the platform to abort the run and ends without a result and
\* without an error.
C1_CancelAbortsAndSilences ==
    \A r \in Slots :
        (/\ calls[r].pc = "done"
         /\ calls[r].tool.type = "actor"
         /\ runs[r].status # "none"
         /\ calls[r].firedBeforeCompletion)
            => (runs[r].abortRequests >= 1 /\ calls[r].outcome = "empty")

\* C2: an operation on one session leaves the registry of every other session as it
\* was, and a call on a session is decided by its own request and registry: with a
\* token, a registered tool and valid arguments it is dispatched.
C2_SessionsIndependent ==
    /\ \A s \in Sessions \ {lastOp.session} : tools[s] = lastOp.pre[s]
    /\ \A r \in Slots :
            (calls[r].pc # "idle" /\ calls[r].hasToken /\ calls[r].tool # NoTool
                /\ calls[r].args = "valid")
                => calls[r].trace = StageOrder

\* C3: a call during which the platform raised an error ends with a text result,
\* whatever kind of tool was called.
C3_PlatformErrorIsText ==
    \A r \in Slots :
        (calls[r].pc = "done" /\ calls[r].platformError) => calls[r].outcome = "text"

\* C4: the stages of a call are a prefix of received, authenticated, resolved,
\* validated, dispatched, each reached only if its check passed; an internal handler
\* is invoked, a run started or a downstream connection opened only after all of them.
C4_StagesInOrder ==
    \A r \in Slots :
        LET c == calls[r]
        IN /\ c.pc # "idle" => \E k \in 1..Len(StageOrder) : c.trace = SubSeq(StageOrder, 1, k)
           /\ Len(c.trace) >= 2 => c.hasToken
           /\ Len(c.trace) >= 3 => c.tool # NoTool
           /\ Len(c.trace) >= 4 => c.args = "valid"
           /\ (c.handlerInvoked \/ c.jobsStarted > 0 \/ c.connsOpened > 0 \/ runs[r].status # "none")
                => (c.trace = StageOrder /\ c.hasToken /\ c.tool # NoTool /\ c.args = "valid")

\* one call has started a run after all its stages while the other one was refused
\* at the validation
C4_Witness ==
    /\ calls["r1"].pc = "waiting"
    /\ calls["r1"].jobsStarted = 1
    /\ calls["r1"].trace = StageOrder
    /\ runs["r1"].status = "running"
    /\ calls["r2"].pc = "done"
    /\ calls["r2"].args = "invalid"
    /\ calls["r2"].outcome = "InvalidParams"
    /\ calls["r2"].trace = SubSeq(StageOrder, 1, 3)
    /\ ~calls["r2"].handlerInvoked

\* C33: a cancellation signal that fires while the request that starts the run is in
\* flight, or before it, is not lost: once the run has been started the platform is
\* asked to abort it and the call ends without a result.
C33_EarlySignalNotLost ==
    \A r \in Slots :
        (/\ calls[r].pc = "done"
         /\ calls[r].firedAt \in {"fetching", "starting"}
         /\ runs[r].status # "none"
         /\ ~calls[r].platformError)
            => (runs[r].abortRequests >= 1 /\ calls[r].outcome = "empty")

\* C34: once the signal has fired during the wait for the run, the call ends as a
\* cancelled one under every interleaving: the wait may return before the abort request
\* is acknowledged, and the handler still does not read the result set of the run and
\* returns no content.
C34_CancelledUnderEveryInterleaving ==
    \A r \in Slots :
        (calls[r].firedAt = "waiting" /\ ~calls[r].platformError)
            => /\ calls[r].pc # "listing"
               /\ calls[r].pc = "done" => calls[r].outcome = "empty"

\* the signal fired during the wait and the abort was acknowledged first: no result
CancelledDuringWait ==
    \E r \in Slots :
        /\ calls[r].firedAt = "waiting"
        /\ calls[r].pc = "done"
        /\ calls[r].outcome = "empty"
        /\ runs[r].abortRequests = 1

-----------------------------------------------------------------------------
(* Downstream connections and Actor runs of concurrent operations:          *)
(* mcp/client.ts connectMCPClient, the actor-mcp branch of the tools/call   *)
(* handler, tools/actor.ts getMCPServersAsTools and callActorGetDataset     *)

MaxServers == 2

\* the URLs of the Actor MCP servers of the platform
ServerUrlOf(actorName) ==
    LET d == getActorDefinition(actorName)
    IN getActorMCPServerURL(d.id, d.webServerMcpPath)

McpActors == {ActorMcp, ActorMcp2}

\* createMCPStreamableClient / createMCPSSEClient: a Client with its transport, connecting
newClient(owner, url, transport) ==
    [owner |-> owner, url |-> url, transport |-> transport, state |-> "connecting",
     closedBy |-> {}]

\* connectMCPClient without the fallback: the first failure is thrown
afterAttempt_NoFallback(transport, ok) ==
    IF ok THEN "return" ELSE "throw"

\* connectMCPClient: what follows an attempt.  The streamable HTTP client is returned
\* if it connected, otherwise the SSE client is tried, whose failure is thrown.
afterAttempt(transport, ok) ==
    IF ok THEN "return"
    ELSE IF transport = "streamable" THEN "fallback" ELSE "throw"

\* a release written after the call instead of in `finally`: skipped when it threw
releaseClient_NotOnThrow(cs, client, threw, by) ==
    IF client = 0 \/ threw THEN cs
    ELSE [cs EXCEPT ![client] = [@ EXCEPT !.state = "closed", !.closedBy = @ \cup {by}]]

\* finally { if (client) await client.close(); }
releaseClient(cs, client, threw, by) ==
    IF client = 0 THEN cs
    ELSE [cs EXCEPT ![client] = [@ EXCEPT !.state = "closed", !.closedBy = @ \cup {by}]]

\* an abort sent to the run started last in the process
abortTarget_Latest(task, allRuns) == Len(allRuns)

\* the abort listener closes over actorRun.id of its own call
abortTarget(task, allRuns) == task.run

\* a retry of a failed start
startAgain_Once(task) == task.startRequests < 2

\* actorClient.start is awaited once; its error goes to the catch block
startAgain(task) == FALSE

ResourcesInit ==
    /\ LoaderIdle
    /\ RegistriesEmpty
    /\ CallsIdle
    /\ ResourcesIdle
    /\ RepliesIdle
    /\ TurnsIdle
    /\ CacheIdle
    /\ SchemaIdle
    /\ StepsIdle
    /\ MoreIdle

\* the connect of a task to the server at the head of its list begins
BeginConnect(task, t, cs) ==
    [task |-> [task EXCEPT !.pc = "connecting", !.pending = Len(cs) + 1, !.client = 0,
                           !.attempts = <<>>, !.connect = "pending"],
     conns |-> Append(cs, newClient(t, Head(task.todo), "streamable"))]

\* tools/call of an actor-mcp tool: the handler reaches connectMCPClient
StartProxy(t, url) ==
    /\ tasks[t].pc = "idle"
    /\ LET b == BeginConnect([NoTask EXCEPT !.kind = "proxy", !.todo = <<url>>], t, conns)
       IN /\ tasks' = [tasks EXCEPT ![t] = b.task]
          /\ conns' = b.conns
    /\ UNCHANGED jobs
    /\ UNCHANGED <<loaderVars, serverVars, replyVars, turnVars, cacheVars, schemaVars, stepVars, moreVars>>

\* getMCPServersAsTools(actorsInfo): the loop reaches its first server, or ends at once
StartImport(t, servers) ==
    /\ tasks[t].pc = "idle"
    /\ LET task == [NoTask EXCEPT !.kind = "import", !.todo = servers]
       IN IF servers = <<>>
          THEN /\ tasks' = [tasks EXCEPT ![t] = [task EXCEPT !.pc = "done", !.outcome = "tools"]]
               /\ UNCHANGED conns
          ELSE LET b == BeginConnect(task, t, conns)
               IN /\ tasks' = [tasks EXCEPT ![t] = b.task]
                  /\ conns' = b.conns
    /\ UNCHANGED jobs
    /\ UNCHANGED <<loaderVars, serverVars, replyVars, turnVars, cacheVars, schemaVars, stepVars, moreVars>>

\* tools/call of an Actor tool: callActorGetDataset asks the platform to start a run
StartActor(t) ==
    /\ tasks[t].pc = "idle"
    /\ tasks' = [tasks EXCEPT ![t] =
                    [NoTask EXCEPT !.kind = "actor", !.pc = "starting", !.startRequests = 1]]
    /\ UNCHANGED <<conns, jobs>>
    /\ UNCHANGED <<loaderVars, serverVars, replyVars, turnVars, cacheVars, schemaVars, stepVars, moreVars>>

\* client.connect of the pending attempt returns or throws
AttemptReturns(t, ok) ==
    /\ tasks[t].pc = "connecting"
    /\ LET task == tasks[t]
           i == task.pending
           tr == conns[i].transport
           nxt == afterAttempt(tr, ok)
           cs == [conns EXCEPT ![i].state = IF ok THEN "open" ELSE "failed"]
           tried == [task EXCEPT !.attempts = Append(@, [transport |-> tr, ok |-> ok])]
       IN CASE nxt = "return" ->
                /\ tasks' = [tasks EXCEPT ![t] =
                                [tried EXCEPT !.client = i, !.pending = 0, !.connect = "connected",
                                              !.pc = IF task.kind = "proxy" THEN "calling"
                                                     ELSE "listing",
                                              !.callRequests = IF task.kind = "proxy"
                                                               THEN @ + 1 ELSE @]]
                /\ conns' = cs
            [] nxt = "fallback" ->
                /\ tasks' = [tasks EXCEPT ![t] = [tried EXCEPT !.pending = Len(cs) + 1]]
                /\ conns' = Append(cs, newClient(t, Head(task.todo), "sse"))
            [] OTHER ->
                /\ tasks' = [tasks EXCEPT ![t] =
                                [tried EXCEPT !.pending = 0, !.connect = "failed",
                                              !.pc = "done", !.outcome = "error"]]
                /\ conns' = releaseClient(cs, task.client, TRUE, t)
    /\ UNCHANGED jobs
    /\ UNCHANGED <<loaderVars, serverVars, replyVars, turnVars, cacheVars, schemaVars, stepVars, moreVars>>

\* client.callTool returns a result, rejects or times out; the client is released
CallToolReturns(t, res) ==
    /\ tasks[t].pc = "calling"
    /\ tasks' = [tasks EXCEPT ![t] =
                    [@ EXCEPT !.pc = "done",
                              !.outcome = IF res = "result" THEN "content" ELSE "error"]]
    /\ conns' = releaseClient(conns, tasks[t].client, res # "result", t)
    /\ UNCHANGED jobs
    /\ UNCHANGED <<loaderVars, serverVars, replyVars, turnVars, cacheVars, schemaVars, stepVars, moreVars>>

\* getMCPServerTools returns or throws; the client is released and the loop goes on
\* with the next server
ListToolsReturns(t, ok) ==
    /\ tasks[t].pc = "listing"
    /\ LET task == tasks[t]
           cs == releaseClient(conns, task.client, ~ok, t)
           rest == [task EXCEPT !.todo = Tail(@)]
       IN IF ~ok
          THEN /\ tasks' = [tasks EXCEPT ![t] = [task EXCEPT !.pc = "done", !.outcome = "error"]]
               /\ conns' = cs
          ELSE IF rest.todo = <<>>
          THEN /\ tasks' = [tasks EXCEPT ![t] = [rest EXCEPT !.pc = "done", !.outcome = "tools"]]
               /\ conns' = cs
          ELSE LET b == BeginConnect(rest, t, cs)
               IN /\ tasks' = [tasks EXCEPT ![t] = b.task]
                  /\ conns' = b.conns
    /\ UNCHANGED jobs
    /\ UNCHANGED <<loaderVars, serverVars, replyVars, turnVars, cacheVars, schemaVars, stepVars, moreVars>>

\* actorClient.start returns the run, and the abort listener is added, or it throws
RunStartReturns(t, ok) ==
    /\ tasks[t].pc = "starting"
    /\ IF ok
       THEN /\ jobs' = Append(jobs, [owner |-> t, status |-> "running", abortRequests |-> 0,
                                      abortedBy |-> {}])
            /\ tasks' = [tasks EXCEPT ![t] =
                            [@ EXCEPT !.pc = "waiting", !.run = Len(jobs) + 1, !.listener = TRUE]]
       ELSE /\ tasks' = [tasks EXCEPT ![t] =
                            IF startAgain(@) THEN [@ EXCEPT !.startRequests = @ + 1]
                            ELSE [@ EXCEPT !.pc = "done", !.outcome = "error"]]
            /\ UNCHANGED jobs
    /\ UNCHANGED conns
    /\ UNCHANGED <<loaderVars, serverVars, replyVars, turnVars, cacheVars, schemaVars, stepVars, moreVars>>

\* the request of the task is cancelled: only callActorGetDataset listens to the
\* signal, and only once the run has been started
Cancel(t) ==
    /\ tasks[t].pc \notin {"idle", "done"}
    /\ tasks[t].kind \in {"proxy", "actor"}
    /\ ~tasks[t].signal
    /\ tasks' = [tasks EXCEPT ![t] =
                    [@ EXCEPT !.signal = TRUE, !.abortPending = @ \/ tasks[t].listener]]
    /\ jobs' = IF tasks[t].listener
               THEN LET j == abortTarget(tasks[t], jobs)
                    IN [jobs EXCEPT ![j] =
                            [@ EXCEPT !.status = IF @ = "running" THEN "aborted" ELSE @,
                                      !.abortRequests = @ + 1,
                                      !.abortedBy = @ \cup {t}]]
               ELSE jobs
    /\ UNCHANGED conns
    /\ UNCHANGED <<loaderVars, serverVars, replyVars, turnVars, cacheVars, schemaVars, stepVars, moreVars>>

\* the platform: a run completes
JobFinishes(j) ==
    /\ j \in DOMAIN jobs
    /\ jobs[j].status = "running"
    /\ jobs' = [jobs EXCEPT ![j].status = "finished"]
    /\ UNCHANGED <<tasks, conns>>
    /\ UNCHANGED <<loaderVars, serverVars, replyVars, turnVars, cacheVars, schemaVars, stepVars, moreVars>>

\* the abort request returns and the abort promise resolves
AbortAcked(t) ==
    /\ tasks[t].abortPending
    /\ tasks' = [tasks EXCEPT ![t] =
                    LET task == [@ EXCEPT !.abortPending = FALSE]
                    IN IF task.pc = "waiting"
                       THEN [task EXCEPT !.pc = "done", !.outcome = "empty"]
                       ELSE task]
    /\ UNCHANGED <<conns, jobs>>
    /\ UNCHANGED <<loaderVars, serverVars, replyVars, turnVars, cacheVars, schemaVars, stepVars, moreVars>>

\* waitForFinish returns the run in a terminal status, or throws
WaitForFinishReturns(t, ok) ==
    /\ tasks[t].pc = "waiting"
    /\ ~ok \/ jobs[tasks[t].run].status \in {"finished", "aborted"}
    /\ tasks' = [tasks EXCEPT ![t] =
                    IF ok THEN [@ EXCEPT !.pc = "fetching"]
                    ELSE [@ EXCEPT !.pc = "done", !.outcome = "error"]]
    /\ UNCHANGED <<conns, jobs>>
    /\ UNCHANGED <<loaderVars, serverVars, replyVars, turnVars, cacheVars, schemaVars, stepVars, moreVars>>

\* dataset.listItems and the default build return, or throw
ItemsReturn(t, ok) ==
    /\ tasks[t].pc = "fetching"
    /\ tasks' = [tasks EXCEPT ![t] =
                    [@ EXCEPT !.pc = "done", !.outcome = IF ok THEN "content" ELSE "error"]]
    /\ UNCHANGED <<conns, jobs>>
    /\ UNCHANGED <<loaderVars, serverVars, replyVars, turnVars, cacheVars, schemaVars, stepVars, moreVars>>

ResourcesNext ==
    \/ \E t \in TaskIds :
        \/ \E a \in McpActors : StartProxy(t, ServerUrlOf(a))
        \/ \E servers \in ListsOver(McpActors, MaxServers) :
                StartImport(t, [i \in 1..Len(servers) |-> ServerUrlOf(servers[i])])
        \/ StartActor(t)
        \/ Cancel(t)
        \/ AbortAcked(t)
    \/ \E t \in TaskIds, ok \in BOOLEAN :
        \/ AttemptReturns(t, ok)
        \/ ListToolsReturns(t, ok)
        \/ RunStartReturns(t, ok)
        \/ WaitForFinishReturns(t, ok)
        \/ ItemsReturn(t, ok)
    \/ \E t \in TaskIds, res \in {"result", "error", "timeout"} : CallToolReturns(t, res)
    \/ \E j \in 1..Cardinality(TaskIds) : JobFinishes(j)

SpecResources == ResourcesInit /\ [][ResourcesNext]_vars

-----------------------------------------------------------------------------
(* Claims about connections, runs and retries *)

ClientsOf(t) == {i \in DOMAIN conns : conns[i].owner = t}
LiveClientsOf(t) == {i \in ClientsOf(t) : conns[i].state \in {"connecting", "open"}}

\* C11: once a proxy call or an import of a downstream server's tools has ended, with
\* a result, a failure, a timeout or after its cancellation, no connection it created
\* is open or connecting; while it runs it holds one connection at most.
C11_ConnectionsReleased ==
    \A t \in TaskIds :
        /\ tasks[t].pc = "done" => LiveClientsOf(t) = {}
        /\ Cardinality(LiveClientsOf(t)) <= 1

\* a cancelled proxy call whose downstream call failed after its connection had
\* opened over the fallback transport, and an import that ended at its second server
C11_Witness ==
    /\ tasks["t1"].kind = "proxy"
    /\ tasks["t1"].pc = "done"
    /\ tasks["t1"].signal
    /\ tasks["t1"].outcome = "error"
    /\ tasks["t1"].client # 0
    /\ conns[tasks["t1"].client].state = "closed"
    /\ conns[tasks["t1"].client].transport = "sse"
    /\ tasks["t2"].kind = "import"
    /\ tasks["t2"].pc = "done"
    /\ Cardinality(ClientsOf("t2")) = 2
    /\ \E i \in ClientsOf("t2") : conns[i].state = "closed"

\* C16: no two operations hold the same connection or the same run, a connection is
\* closed only by the operation that created it, and a run receives abort requests
\* only from the call that started it.
C16_ExclusiveOwnership ==
    /\ \A t \in TaskIds :
        /\ tasks[t].client # 0 => conns[tasks[t].client].owner = t
        /\ tasks[t].pending # 0 => conns[tasks[t].pending].owner = t
        /\ tasks[t].run # 0 => jobs[tasks[t].run].owner = t
    /\ \A i \in DOMAIN conns : conns[i].closedBy \subseteq {conns[i].owner}
    /\ \A j \in DOMAIN jobs : jobs[j].abortedBy \subseteq {jobs[j].owner}
    /\ \A j \in DOMAIN jobs :
            jobs[j].status = "aborted" => tasks[jobs[j].owner].signal

\* the first call was cancelled and its run aborted while the run of the second call,
\* started later, goes on
C16_Witness ==
    /\ tasks["t1"].kind = "actor"
    /\ tasks["t1"].pc = "done"
    /\ tasks["t1"].outcome = "empty"
    /\ tasks["t1"].run = 1
    /\ jobs[1].status = "aborted"
    /\ jobs[1].abortedBy = {"t1"}
    /\ tasks["t2"].kind = "actor"
    /\ tasks["t2"].pc = "waiting"
    /\ tasks["t2"].run = 2
    /\ jobs[2].status = "running"
    /\ jobs[2].abortRequests = 0

\* C18: a call issues one start request and one downstream tool call at most, and a
\* failed request ends the call; only a connect is attempted a second time, over the
\* other transport, after the first attempt failed.
C18_NoRetries ==
    \A t \in TaskIds :
        LET task == tasks[t]
        IN /\ task.startRequests <= 1
           /\ task.callRequests <= 1
           /\ Cardinality({j \in DOMAIN jobs : jobs[j].owner = t}) <= task.startRequests
           /\ task.kind = "proxy" =>
                /\ Cardinality(ClientsOf(t)) <= 2
                /\ Cardinality({i \in ClientsOf(t) : conns[i].transport = "streamable"}) <= 1
                /\ Cardinality({i \in ClientsOf(t) : conns[i].transport = "sse"}) <= 1
           /\ (task.pc = "done" /\ task.outcome = "error") =>
                (task.startRequests + task.callRequests <= 1)

\* a call whose start request failed and a proxy call whose downstream call failed
\* after the fallback connect
C18_Witness ==
    /\ tasks["t1"].kind = "actor"
    /\ tasks["t1"].pc = "done"
    /\ tasks["t1"].outcome = "error"
    /\ tasks["t1"].startRequests = 1
    /\ tasks["t1"].run = 0
    /\ tasks["t2"].kind = "proxy"
    /\ tasks["t2"].pc = "done"
    /\ tasks["t2"].outcome = "error"
    /\ tasks["t2"].callRequests = 1
    /\ Cardinality(ClientsOf("t2")) = 2

\* C19: a connect tries the streamable transport first and the SSE transport after it
\* only if that attempt failed; it fails exactly when both attempts failed.
C19_TransportFallback ==
    \A t \in TaskIds :
        LET a == tasks[t].attempts
        IN /\ Len(a) <= 2
           /\ Len(a) >= 1 => a[1].transport = "streamable"
           /\ Len(a) = 2 => (~a[1].ok /\ a[2].transport = "sse")
           /\ (Len(a) = 1 /\ ~a[1].ok) =>
                (/\ tasks[t].connect = "pending"
                 /\ tasks[t].pending # 0
                 /\ conns[tasks[t].pending].transport = "sse")
           /\ tasks[t].connect = "failed" <=> (Len(a) = 2 /\ ~a[2].ok)
           /\ tasks[t].connect = "connected" <=> (Len(a) >= 1 /\ a[Len(a)].ok)
           /\ (tasks[t].connect = "pending" /\ a = <<>>) =>
                conns[tasks[t].pending].transport = "streamable"

\* one connect succeeded at the first attempt, one failed at both
C19_Witness ==
    /\ tasks["t1"].connect = "connected"
    /\ Len(tasks["t1"].attempts) = 1
    /\ tasks["t2"].connect = "failed"
    /\ Len(tasks["t2"].attempts) = 2
    /\ tasks["t2"].pc = "done"

-----------------------------------------------------------------------------
(* mcp/server.ts: what a tools/call request is answered with: the error or the     *)
(* result, their texts, and the log notifications sent to the client               *)

\* mcp/const.ts LOG_LEVEL_MAP
LOG_LEVEL_MAP ==
    [debug |-> 0, info |-> 1, notice |-> 2, warning |-> 3, error |-> 4, critical |-> 5,
     alert |-> 6, emergency |-> 7]

\* the filter comparing with > instead of >=
sendLoggingMessage_Strict(current, params) ==
    LET messageLevelValue ==
            IF params.level \in DOMAIN LOG_LEVEL_MAP THEN LOG_LEVEL_MAP[params.level] ELSE -1
        currentLevelValue ==
            IF current \in DOMAIN LOG_LEVEL_MAP THEN LOG_LEVEL_MAP[current] ELSE LOG_LEVEL_MAP.info
    IN IF messageLevelValue > currentLevelValue THEN <<params>> ELSE <<>>

\* setupLoggingProxy: the notifications that reach the client
sendLoggingMessage(current, params) ==
    LET messageLevelValue ==
            IF params.level \in DOMAIN LOG_LEVEL_MAP THEN LOG_LEVEL_MAP[params.level] ELSE -1
        currentLevelValue ==
            IF current \in DOMAIN LOG_LEVEL_MAP THEN LOG_LEVEL_MAP[current] ELSE LOG_LEVEL_MAP.info
    IN IF messageLevelValue >= currentLevelValue THEN <<params>> ELSE <<>>

\* Array.prototype.join with a separator of any length
RECURSIVE JoinWith(_, _)
JoinWith(l, sep) ==
    IF l = <<>> THEN <<>>
    ELSE IF Len(l) = 1 THEN l[1]
    ELSE l[1] \o sep \o JoinWith(Tail(l), sep)

\* a text is a template literal: literal parts and interpolated values
Part(k, v) == [k |-> k, v |-> v]
Lit(s) == Part("lit", <<s>>)

TokenRequiredMsg ==
    <<Lit("APIFY_TOKEN is required. It must be set in the environment variables or passed as a parameter in the body.")>>

ToolNotFoundMsg(name, reg) ==
    <<Lit("Tool "), Part("name", name), Lit(" not found. Available tools: "),
      Part("list", JoinWith(listToolNames(reg), <<",", " ">>))>>

MissingArgumentsMsg(name) == <<Lit("Missing arguments for tool "), Part("name", name)>>

InvalidArgumentsMsg(toolName) ==
    <<Lit("Invalid arguments for tool "), Part("name", toolName), Lit(": args: "),
      Part("args", <<"args">>), Lit(" error: "), Part("errors", <<"errors">>)>>

GenericErrorMsg == <<Lit("An error occurred while calling the tool.")>>

ApiErrorText(name, exc) ==
    <<Lit("Apify API error calling tool "), Part("name", name), Lit(": "),
      Part("detail", exc.message)>>

\* tools/actor.ts call-actor: the catch block of the tool
ActorOperationErrorText(exc) ==
    <<Lit("Error with Actor operation: "), Part("detail", exc.message)>>

\* the message of the failed check of a call refused before the dispatch
refusalMessage(reg, requested, args, pre) ==
    LET name == stripLocalPrefix(requested)
    IN CASE Len(pre.trace) = 1 -> TokenRequiredMsg
         [] Len(pre.trace) = 2 -> ToolNotFoundMsg(name, reg)
         [] Len(pre.trace) = 3 /\ args = "missing" -> MissingArgumentsMsg(name)
         [] OTHER -> InvalidArgumentsMsg(pre.tool.name)

Answer(error, message, result, text, notifications) ==
    [error |-> error, message |-> message, result |-> result, text |-> text,
     notifications |-> notifications]

\* the try block and its catch block: what the execution of a validated call gives
\* when the tool raises `exc`
executeTool(tool, name, exc) ==
    CASE exc.kind = "none" -> Answer("none", <<>>, "content", <<>>, <<>>)
      [] exc.kind # "none" /\ tool.type = "internal" /\ tool.name = ACTOR_CALL ->
            Answer("none", <<>>, "text", ActorOperationErrorText(exc), <<>>)
      [] exc.kind # "none" /\ tool.type = "actor" ->
            \* callActorGetDataset rethrows a plain Error
            Answer(handlerCatch(FALSE), GenericErrorMsg, "none", <<>>, <<>>)
      [] OTHER ->
            IF handlerCatch(exc.kind = "ApifyApiError") = "text"
            THEN Answer("none", <<>>, "text", ApiErrorText(name, exc), <<>>)
            ELSE Answer("InternalError", GenericErrorMsg, "none", <<>>, <<>>)

\* the tools/call handler as a whole
callToolReply(reg, level, hasToken, requested, args, alive, exc) ==
    LET pre == callToolPrefix(reg, hasToken, requested, args, alive)
        msg == refusalMessage(reg, requested, args, pre)
        ans == CASE pre.outcome = "InvalidParams" ->
                        Answer("InvalidParams", msg, "none", <<>>,
                               sendLoggingMessage(level, [level |-> "error", data |-> msg]))
                 [] pre.outcome = "TypeError" ->
                        Answer("TypeError", <<>>, "none", <<>>, <<>>)
                 [] OTHER -> executeTool(pre.tool, stripLocalPrefix(requested), exc)
    IN [sent |-> TRUE, requested |-> requested, hasToken |-> hasToken, args |-> args,
        exc |-> IF pre.outcome = "none" THEN exc ELSE NoException,
        reg |-> reg, level |-> level, tool |-> pre.tool, error |-> ans.error,
        message |-> ans.message, result |-> ans.result, text |-> ans.text,
        notifications |-> ans.notifications]

\* the session whose replies are observed
ReplySession == "s1"

\* a client-side name of T: local__x__T
Prefixed(T) == LocalPrefix \o <<"x", "_", "_">> \o T

ProxyUName == getActorsAsTools(<<ActorMcpU>>)[1].name

\* registered names that calls ask for, plainly and with the prefix
PlainNames == {ACTOR_ADD, ACTOR_CALL, actorNameToToolName(ActorAB), ProxyUName}

ReplyRequestNames == PlainNames \cup {Prefixed(T) : T \in PlainNames} \cup {ActorNone}

ExceptionUniverse ==
    {NoException, [kind |-> "ApifyApiError", message |-> <<"q", "u", "o", "t", "a">>],
     [kind |-> "Error", message |-> <<"E", "C", "O", "N", "N">>]}

\* the Actors that sessions load next to their internal tools
ReplyActorLists == {<<ActorAB, ActorMcpU>>}

\* the levels logging/setLevel requests name: below, at and above `error`, and an
\* unknown one
RequestedLevels == {"debug", "error", "critical", "verbose"}

RepliesInit ==
    /\ LoaderIdle
    /\ RegistriesEmpty
    /\ CallsIdle
    /\ ResourcesIdle
    /\ RepliesIdle
    /\ TurnsIdle
    /\ CacheIdle
    /\ SchemaIdle
    /\ StepsIdle
    /\ MoreIdle

\* logging/setLevel: a known level becomes the threshold
SetLevel(level) ==
    /\ logLevel' = IF level \in DOMAIN LOG_LEVEL_MAP THEN level ELSE logLevel
    /\ reply' = NoReply
    /\ UNCHANGED <<loaderVars, serverVars, resourceVars, turnVars, cacheVars, schemaVars, stepVars, moreVars>>

\* the session's tools are loaded: the internal tools of the input
LoadInternalTools ==
    /\ tools[ReplySession] = <<>>
    /\ LET entries == loadToolsFromInput(InputAddActor) \o <<InternalEntry(ACTOR_CALL)>>
       IN /\ tools' = [tools EXCEPT ![ReplySession] = upsertTools(@, entries)]
          /\ lastOp' = OpRecord("upsertTools", ReplySession, entries, <<>>, FALSE, entries,
                                <<>>, FALSE)
    /\ reply' = NoReply
    /\ UNCHANGED <<handler, closed, ajvAlive, calls, runs, ops>>
    /\ UNCHANGED <<loaderVars, resourceVars, logLevel, turnVars, cacheVars, schemaVars, stepVars, moreVars>>

\* loadActorsAsTools of Actors of the platform
LoadReplyActors(actorIdsOrNames) ==
    /\ LET actorTools == getActorsAsTools(actorIdsOrNames)
           reg == IF Len(actorTools) > 0 THEN upsertTools(tools[ReplySession], actorTools)
                  ELSE tools[ReplySession]
       IN /\ tools' = [tools EXCEPT ![ReplySession] = reg]
          /\ lastOp' = OpRecord("loadActorsAsTools", ReplySession, actorTools, actorIdsOrNames,
                                TRUE, actorTools,
                                IF Len(actorTools) > 0
                                THEN notifyToolsChangedHandler(reg, handler[ReplySession])
                                ELSE <<>>,
                                FALSE)
    /\ reply' = NoReply
    /\ UNCHANGED <<handler, closed, ajvAlive, calls, runs, ops>>
    /\ UNCHANGED <<loaderVars, resourceVars, logLevel, turnVars, cacheVars, schemaVars, stepVars, moreVars>>

\* a tools/call request is answered
AnswerCall(requested, hasToken, args, exc) ==
    /\ reply' = callToolReply(tools[ReplySession], logLevel, hasToken, requested, args,
                              ajvAlive, exc)
    /\ UNCHANGED logLevel
    /\ UNCHANGED <<loaderVars, serverVars, resourceVars, turnVars, cacheVars, schemaVars, stepVars, moreVars>>

RepliesNext ==
    \/ \E level \in RequestedLevels : SetLevel(level)
    \/ LoadInternalTools
    \/ \E actorIdsOrNames \in ReplyActorLists : LoadReplyActors(actorIdsOrNames)
    \/ \E requested \in ReplyRequestNames, hasToken \in BOOLEAN, args \in RequestArgs,
          exc \in ExceptionUniverse :
            AnswerCall(requested, hasToken, args, exc)

SpecReplies == RepliesInit /\ [][RepliesNext]_vars

-----------------------------------------------------------------------------
(* Claims about the answers to tools/call *)

ErrorNotification(r) == [level |-> "error", data |-> r.message]

HasPart(text, k) == \E i \in DOMAIN text : text[i].k = k

\* the request fails one of the four checks made before the dispatch
FailsACheck(r) == ~r.hasToken \/ r.tool = NoTool \/ r.args \in {"missing", "invalid"}

\* C12 as stated: every call answered with InvalidParams has sent one log
\* notification carrying the message of the error, whatever the logging level is.
C12_Original ==
    (reply.sent /\ reply.error = "InvalidParams")
        => reply.notifications = <<ErrorNotification(reply)>>

\* C12: a call that fails one of the four checks is answered with InvalidParams and
\* the message of the failed check, and the same message is sent as an error-level log
\* notification exactly when the logging level of the session is `error` or below.
C12_NotifiedUnlessFiltered ==
    reply.sent =>
        /\ FailsACheck(reply) <=> reply.error = "InvalidParams"
        /\ reply.error = "InvalidParams" =>
            /\ reply.message =
                    refusalMessage(reply.reg, reply.requested, reply.args,
                                   Prefix(SubSeq(StageOrder, 1,
                                                 IF ~reply.hasToken THEN 1
                                                 ELSE IF reply.tool = NoTool THEN 2 ELSE 3),
                                          reply.tool, "InvalidParams"))
            /\ reply.notifications =
                    IF LOG_LEVEL_MAP[reply.level] <= LOG_LEVEL_MAP.error
                    THEN <<ErrorNotification(reply)>> ELSE <<>>
        /\ reply.error # "InvalidParams" => reply.notifications = <<>>

\* a call refused for its arguments at the level `error`, with its notification
C12_Witness ==
    /\ reply.sent
    /\ reply.error = "InvalidParams"
    /\ reply.args = "invalid"
    /\ reply.tool # NoTool
    /\ reply.level = "error"
    /\ reply.notifications = <<ErrorNotification(reply)>>

\* C13: a call during which an exception other than a platform API error was raised
\* is answered with InternalError and the fixed message, and neither the error nor a
\* result carries the text of the exception.
C13_GenericInternalError ==
    (reply.sent /\ reply.exc.kind = "Error")
        => /\ reply.error = "InternalError"
           /\ reply.message = GenericErrorMsg
           /\ ~HasPart(reply.message, "detail")
           /\ ~HasPart(reply.text, "detail")

\* C14: a call with a credential that names no registered tool, or that carries no
\* arguments, is answered with InvalidParams and a message that lists the names of
\* the registry.
C14_ToolListEchoed ==
    (reply.sent /\ reply.hasToken /\ (reply.tool = NoTool \/ reply.args = "missing"))
        => /\ reply.error = "InvalidParams"
           /\ \E i \in DOMAIN reply.message :
                /\ reply.message[i].k = "list"
                /\ reply.message[i].v = JoinWith(listToolNames(reply.reg), <<",", " ">>)

\* C15: a call naming local__x__T is answered as the call naming T is, with the same
\* registry, level, credential, arguments and execution: the same entry, the same
\* error or result.
C15_PrefixResolvesAlike ==
    \A T \in PlainNames :
        (reply.sent /\ reply.requested = Prefixed(T))
            => LET plain == callToolReply(reply.reg, reply.level, reply.hasToken, T,
                                          reply.args, ajvAlive, reply.exc)
               IN /\ reply.tool = plain.tool
                  /\ reply.error = plain.error
                  /\ reply.result = plain.result

-----------------------------------------------------------------------------
(* mcp/server.ts: registry batches and the requests handled between their turns.   *)
(* A handler runs until it awaits; other requests are handled only between the     *)
(* turns of the code in progress.                                                  *)

\* upsertTools awaiting after every Map.set
upsertTurns_AwaitPerEntry(entries) == [i \in 1..Len(entries) |-> <<entries[i]>>]

\* upsertTools: the loop over the batch and the notification run in one turn (no await)
upsertTurns(entries) == <<entries>>

\* removeToolsByName: likewise one turn
removeTurns(toolNames) == <<toolNames>>

\* the entries handed to upsertTools and the names handed to removeToolsByName
TurnEntries ==
    {InternalEntry(ACTOR_ADD), ActorToolEntry(getActorDefinition(ActorAB), 1),
     ActorToolEntry(getActorDefinition(ActorCD), 1)}

TurnNames == {ACTOR_ADD, actorNameToToolName(ActorAB)}

TurnSession == "s1"

\* one turn of a batch applied to the registry
applyTurn(reg, op, chunk) ==
    IF op = "upsertTools" THEN upsertTools(reg, chunk) ELSE removeToolsByName(reg, chunk).reg

\* the registry a mutation leaves when it is applied in full to the registry it found
PostOf(o) ==
    CASE o.op = "upsertTools" -> upsertTools(o.pre[o.session], o.entries)
      [] o.op = "removeToolsByName" -> removeToolsByName(o.pre[o.session], o.names).reg
      [] OTHER -> o.pre[o.session]

\* some batch has applied a part of its entries only
PartlyApplied == \E i \in DOMAIN pending : pending[i].partial

Found(kind) ==
    [sent |-> TRUE, kind |-> kind, reg |-> tools[TurnSession], expected |-> PostOf(lastOp),
     mid |-> PartlyApplied]

\* a mutation is called: its first turn runs at once, the others are left pending
StartBatch(reg, pend, op, chunks) ==
    IF chunks = <<>> THEN [reg |-> reg, pend |-> pend]
    ELSE [reg |-> applyTurn(reg, op, Head(chunks)),
          pend |-> IF Tail(chunks) = <<>> THEN pend
                   ELSE Append(pend, [op |-> op, chunks |-> Tail(chunks), partial |-> TRUE,
                                      names |-> <<>>])]

Without(pend, i) == SubSeq(pend, 1, i - 1) \o SubSeq(pend, i + 1, Len(pend))

TurnsInit ==
    /\ LoaderIdle
    /\ RegistriesEmpty
    /\ CallsIdle
    /\ ResourcesIdle
    /\ RepliesIdle
    /\ TurnsIdle
    /\ CacheIdle
    /\ SchemaIdle
    /\ StepsIdle
    /\ MoreIdle

\* upsertTools(tools, shouldNotifyToolsChangedHandler) is called
CallUpsertTools(pend, entries, notify) ==
    /\ LET r == StartBatch(tools[TurnSession], pend, "upsertTools", upsertTurns(entries))
       IN /\ tools' = [tools EXCEPT ![TurnSession] = r.reg]
          /\ pending' = r.pend
    /\ observed' = Found("upsertTools")
    /\ lastOp' = OpRecord("upsertTools", TurnSession, entries, <<>>, notify, entries,
                          IF notify
                          THEN notifyToolsChangedHandler(upsertTools(tools[TurnSession], entries),
                                                         handler[TurnSession])
                          ELSE <<>>,
                          FALSE)

BeginUpsertTools(entries, notify) ==
    /\ ops < MaxOps
    /\ CallUpsertTools(pending, entries, notify)
    /\ ops' = ops + 1
    /\ UNCHANGED <<handler, closed, ajvAlive, calls, runs>>
    /\ UNCHANGED <<loaderVars, resourceVars, replyVars, cacheVars, schemaVars, stepVars, moreVars>>

\* removeToolsByName(toolNames, shouldNotifyToolsChangedHandler) is called
BeginRemoveToolsByName(toolNames, notify) ==
    /\ ops < MaxOps
    /\ LET r == StartBatch(tools[TurnSession], pending, "removeToolsByName",
                           removeTurns(toolNames))
       IN /\ tools' = [tools EXCEPT ![TurnSession] = r.reg]
          /\ pending' = r.pend
    /\ observed' = Found("removeToolsByName")
    /\ LET res == removeToolsByName(tools[TurnSession], toolNames)
       IN lastOp' = OpRecord("removeToolsByName", TurnSession, <<>>, toolNames, notify,
                             res.removedTools,
                             IF removeNotifies(res.removedTools, notify)
                             THEN notifyToolsChangedHandler(res.reg, handler[TurnSession])
                             ELSE <<>>,
                             FALSE)
    /\ ops' = ops + 1
    /\ UNCHANGED <<handler, closed, ajvAlive, calls, runs>>
    /\ UNCHANGED <<loaderVars, resourceVars, replyVars, cacheVars, schemaVars, stepVars, moreVars>>

\* loadActorsAsTools(actorIdsOrNames) is called: it awaits getActorsAsTools
BeginLoadActorsAsTools(actorIdsOrNames) ==
    /\ ops < MaxOps
    /\ pending' = Append(pending, [op |-> "loadActorsAsTools", chunks |-> <<>>,
                                   partial |-> FALSE, names |-> actorIdsOrNames])
    /\ observed' = NoSeen
    /\ ops' = ops + 1
    /\ UNCHANGED <<tools, handler, closed, lastOp, ajvAlive, calls, runs>>
    /\ UNCHANGED <<loaderVars, resourceVars, replyVars, cacheVars, schemaVars, stepVars, moreVars>>

\* the code in progress runs its next turn: getActorsAsTools has returned and the
\* tools are upserted with notification, or a batch goes on after an await
NextTurn(i) ==
    /\ i \in DOMAIN pending
    /\ LET b == pending[i]
           others == Without(pending, i)
           actorTools == getActorsAsTools(b.names)
       IN IF b.op = "loadActorsAsTools"
          THEN IF Len(actorTools) > 0
               THEN CallUpsertTools(others, actorTools, TRUE)
               ELSE /\ pending' = others
                    /\ observed' = NoSeen
                    /\ UNCHANGED <<tools, lastOp>>
          ELSE /\ tools' = [tools EXCEPT ![TurnSession] = applyTurn(@, b.op, Head(b.chunks))]
               /\ pending' = IF Tail(b.chunks) = <<>> THEN others
                             ELSE [pending EXCEPT ![i].chunks = Tail(b.chunks)]
               /\ observed' = NoSeen
               /\ UNCHANGED lastOp
    /\ UNCHANGED <<handler, closed, ajvAlive, calls, runs, ops>>
    /\ UNCHANGED <<loaderVars, resourceVars, replyVars, cacheVars, schemaVars, stepVars, moreVars>>

\* tools/list is handled: it reads the whole Map
ListTools ==
    /\ observed' = Found("tools/list")
    /\ UNCHANGED pending
    /\ UNCHANGED <<loaderVars, serverVars, resourceVars, replyVars, cacheVars, schemaVars, stepVars, moreVars>>

\* tools/call is handled: it searches the Map for the tool
ResolveTool ==
    /\ observed' = Found("tools/call")
    /\ UNCHANGED pending
    /\ UNCHANGED <<loaderVars, serverVars, resourceVars, replyVars, cacheVars, schemaVars, stepVars, moreVars>>

TurnsNext ==
    \/ \E entries \in ListsOver(TurnEntries, MaxBatch), notify \in BOOLEAN :
            BeginUpsertTools(entries, notify)
    \/ \E toolNames \in ListsOver(TurnNames, MaxBatch), notify \in BOOLEAN :
            BeginRemoveToolsByName(toolNames, notify)
    \/ \E actorIdsOrNames \in ListsOver({ActorCD, ActorMcp}, MaxActors) :
            BeginLoadActorsAsTools(actorIdsOrNames)
    \/ \E i \in 1..MaxOps : NextTurn(i)
    \/ ListTools
    \/ ResolveTool

SpecTurns == TurnsInit /\ [][TurnsNext]_vars

\* C17: whatever a tools/list, a call resolution or another mutation finds in the
\* registry is the registry the last mutation leaves when applied in full: no request
\* is handled while a batch is partly applied.
C17_BatchAtomic ==
    /\ observed.sent => (~observed.mid /\ observed.reg = observed.expected)
    /\ ~PartlyApplied
    /\ tools[TurnSession] = PostOf(lastOp)

\* a tools/list handled after an upsert of two entries, with a load still awaiting
\* its Actors
C17_Witness ==
    /\ observed.sent
    /\ observed.kind = "tools/list"
    /\ lastOp.op = "upsertTools"
    /\ Len(lastOp.entries) = 2
    /\ Len(lastOp.pre[TurnSession]) = 0
    /\ Len(observed.reg) = 2
    /\ pending # <<>>

-----------------------------------------------------------------------------
(* utils/ttl-lru.ts TTLLRUCache over the LruCache of @apify/datastructures *)

KeyIndex(c, key) ==
    IF \E i \in DOMAIN c : c[i].key = key
    THEN CHOOSE i \in DOMAIN c : c[i].key = key
    ELSE 0

\* LruCache.remove(key)
lruRemove(c, key) == SelectSeq(c, LAMBDA e : e.key # key)

\* LruCache.get(key): the entry, which becomes the most recently used one, or null
lruGet(c, key) ==
    LET i == KeyIndex(c, key)
    IN IF i = 0 THEN [cache |-> c, hit |-> FALSE, entry |-> [key |-> key, value |-> "null", expiresAt |-> 0]]
       ELSE [cache |-> Append(lruRemove(c, key), c[i]), hit |-> TRUE, entry |-> c[i]]

\* LruCache.add(key, value): nothing if the key is there, else the entry is appended
\* and the least recently used entry dropped when maxLength is exceeded
lruAdd(c, entry, maxLength) ==
    IF KeyIndex(c, entry.key) # 0 THEN c
    ELSE LET added == Append(c, entry)
         IN IF Len(added) > maxLength THEN Tail(added) ELSE added

\* set that adds without removing the entry the key has
ttlSet_KeepExisting(c, key, value, now) ==
    lruAdd(lruGet(c, key).cache,
           [key |-> key, value |-> value, expiresAt |-> now + CacheTtl], CacheMaxLength)

\* TTLLRUCache.set(key, value)
ttlSet(c, key, value, now) ==
    LET g == lruGet(c, key)
        cleared == IF g.hit THEN lruRemove(g.cache, key) ELSE g.cache
    IN lruAdd(cleared, [key |-> key, value |-> value, expiresAt |-> now + CacheTtl],
              CacheMaxLength)

\* get that answers null for an expired entry and leaves it in the cache
ttlGet_KeepExpired(c, key, now) ==
    LET g == lruGet(c, key)
    IN IF g.hit /\ g.entry.expiresAt > now
       THEN [cache |-> g.cache, value |-> g.entry.value]
       ELSE [cache |-> g.cache, value |-> "null"]

\* TTLLRUCache.get(key): the value, or null with the entry removed
ttlGet(c, key, now) ==
    LET g == lruGet(c, key)
    IN IF g.hit /\ g.entry.expiresAt > now
       THEN [cache |-> g.cache, value |-> g.entry.value]
       ELSE [cache |-> lruRemove(g.cache, key), value |-> "null"]

KeysOf(c) == {c[i].key : i \in DOMAIN c}

CacheInit ==
    /\ LoaderIdle
    /\ RegistriesEmpty
    /\ CallsIdle
    /\ ResourcesIdle
    /\ RepliesIdle
    /\ TurnsIdle
    /\ CacheIdle
    /\ SchemaIdle
    /\ StepsIdle
    /\ MoreIdle

\* time passes
Tick ==
    /\ clock < MaxClock
    /\ clock' = clock + 1
    /\ got' = NoGet
    /\ UNCHANGED <<cache, history>>
    /\ UNCHANGED <<loaderVars, serverVars, resourceVars, replyVars, turnVars, schemaVars, stepVars, moreVars>>

\* cache.set(key, value); an entry that leaves the cache for the capacity is noted
CacheSet(key, value) ==
    /\ cache' = ttlSet(cache, key, value, clock)
    /\ history' = [k \in CacheKeys |->
                    IF k = key
                    THEN [set |-> TRUE, value |-> value, at |-> clock, evicted |-> FALSE,
                          missed |-> FALSE,
                          over |-> IF key \notin KeysOf(cache) THEN "no"
                                   ELSE IF history[key].at < clock THEN "later"
                                   ELSE "same"]
                    ELSE IF k \in KeysOf(cache) \ KeysOf(cache')
                    THEN [history[k] EXCEPT !.evicted = TRUE]
                    ELSE history[k]]
    /\ got' = NoGet
    /\ UNCHANGED clock
    /\ UNCHANGED <<loaderVars, serverVars, resourceVars, replyVars, turnVars, schemaVars, stepVars, moreVars>>

\* cache.get(key)
CacheGet(key) ==
    /\ LET r == ttlGet(cache, key, clock)
       IN /\ cache' = r.cache
          /\ got' = [sent |-> TRUE, key |-> key, value |-> r.value, now |-> clock,
                     last |-> history[key], present |-> key \in KeysOf(r.cache)]
          /\ history' = [history EXCEPT ![key].missed = @ \/ r.value = "null"]
    /\ UNCHANGED clock
    /\ UNCHANGED <<loaderVars, serverVars, resourceVars, replyVars, turnVars, schemaVars, stepVars, moreVars>>

CacheNext ==
    \/ Tick
    \/ \E key \in CacheKeys, value \in CacheValues : CacheSet(key, value)
    \/ \E key \in CacheKeys : CacheGet(key)

SpecCache == CacheInit /\ [][CacheNext]_vars

\* the get follows a set of its key and the TTL of that set has not elapsed
BeforeExpiry(g) == g.sent /\ g.last.set /\ g.now < g.last.at + CacheTtl
\* the get follows a set of its key and the TTL of that set has elapsed
AfterExpiry(g) == g.sent /\ g.last.set /\ g.now >= g.last.at + CacheTtl

\* C20 as stated: a get before the TTL of the last set of its key has elapsed returns
\* the value set; a get after it has elapsed is a miss and removes the entry, and a
\* get that follows a miss with no set in between is a miss.
C20_Original ==
    /\ BeforeExpiry(got) => got.value = got.last.value
    /\ AfterExpiry(got) => (got.value = "null" /\ ~got.present)
    /\ (got.sent /\ got.last.missed /\ AfterExpiry(got)) => got.value = "null"

\* C20: a get before the TTL of the last set of its key has elapsed returns the value
\* set unless the entry has left the cache since, for the capacity or by an earlier
\* miss; a get after the TTL has elapsed is a miss; every miss leaves the cache without
\* an entry for the key, and a get that follows a miss or an eviction with no set in
\* between is a miss.
C20_TtlUnlessEvicted ==
    /\ (BeforeExpiry(got) /\ ~got.last.evicted /\ ~got.last.missed)
            => got.value = got.last.value
    /\ AfterExpiry(got) => got.value = "null"
    /\ (got.sent /\ got.value = "null") => ~got.present
    /\ (got.sent /\ (got.last.missed \/ got.last.evicted \/ ~got.last.set))
            => got.value = "null"
    /\ Len(cache) <= CacheMaxLength
    /\ \A k \in CacheKeys :
            k \in KeysOf(cache) <=>
                (history[k].set /\ ~history[k].evicted /\ ~history[k].missed)

\* a get of a key whose TTL has elapsed misses and removes the entry, in a run where
\* another key lost its entry to the capacity
C20_Witness ==
    /\ got.sent
    /\ AfterExpiry(got)
    /\ got.value = "null"
    /\ ~got.last.missed
    /\ ~got.last.evicted
    /\ Len(cache) = 1
    /\ \E k \in CacheKeys : k # got.key /\ history[k].evicted

\* the get follows a set of its key made while the key had an entry, and the TTL of
\* that set has not elapsed
BeforeExpiryOfReset(g) == BeforeExpiry(g) /\ g.last.over # "no"

\* C21 as stated: after a set on a key that has an entry, the key is readable with the
\* new value until a full TTL after that set, whenever the earlier sets happened.
C21_Original ==
    BeforeExpiryOfReset(got) => got.value = got.last.value

\* C21: a set on a key that has an entry replaces the value and restarts the TTL from
\* the time of that set: unless the entry leaves the cache for the capacity, a get
\* returns the new value until a full TTL after the latest set, whenever the earlier
\* sets happened, and misses from then on.
C21_SetRestartsTtl ==
    /\ (BeforeExpiryOfReset(got) /\ ~got.last.evicted) => got.value = got.last.value
    /\ (AfterExpiry(got) /\ got.last.over # "no") => got.value = "null"
    /\ \A i \in DOMAIN cache :
          /\ history[cache[i].key].set
          /\ cache[i].value = history[cache[i].key].value
          /\ cache[i].expiresAt = history[cache[i].key].at + CacheTtl

\* a get returns the new value at the last tick before a full TTL after the latest
\* set, when the TTL of the earlier set, made at an earlier tick, has elapsed
C21_Witness ==
    /\ BeforeExpiryOfReset(got)
    /\ got.last.over = "later"
    /\ got.now = got.last.at + CacheTtl - 1
    /\ got.value = got.last.value
    /\ got.value # "null"

-----------------------------------------------------------------------------
(* tools/utils.ts: the adaptation of an Actor's input schema, and the decoding of
   the argument names of a call. Objects live in a heap and are held by reference
   (a reference is the object's place in the heap; 0 is undefined), so that a write
   through one reference is seen through every other reference to the object. *)

ACTOR_ENUM_MAX_LENGTH == 200
ACTOR_MAX_DESCRIPTION_LENGTH == 500

\* a text of the source kept whole, as one element
Literal(s) == Str(<<s>>)

\* an object without own fields, as ISchemaProperties
NoProperty ==
    [k |-> "property", type |-> "undefined", editor |-> "undefined", title |-> "undefined",
     description |-> UNDEF, enum |-> UNDEF, default |-> UNDEF, prefill |-> UNDEF,
     items |-> 0, examples |-> UNDEF, properties |-> "undefined", required |-> "undefined"]

\* Record<string, ISchemaProperties>: the keys in insertion order, and their values
EmptyMap == [k |-> "map", names |-> <<>>, refs |-> <<>>]

HasKey(m, name) == \E i \in 1..Len(m.names) : m.names[i] = name
KeyAt(m, name) == CHOOSE i \in 1..Len(m.names) : m.names[i] = name

\* object[key] = value: an existing key keeps its place
ObjSet(m, name, ref) ==
    IF HasKey(m, name) THEN [m EXCEPT !.refs[KeyAt(m, name)] = ref]
    ELSE [m EXCEPT !.names = Append(@, name), !.refs = Append(@, ref)]

\* `${value}` of a description
TemplateText(v) ==
    IF v.kind = "undefined" THEN <<"u", "n", "d", "e", "f", "i", "n", "e", "d">> ELSE v.v

\* structuredClone of a property: the object and its items
RECURSIVE cloneProperty(_, _)
cloneProperty(h, ref) ==
    IF h[ref].items = 0 THEN Append(h, h[ref])
    ELSE LET h1 == cloneProperty(h, h[ref].items)
         IN Append(h1, [h[ref] EXCEPT !.items = Len(h1)])

RECURSIVE cloneRefs(_, _)
cloneRefs(h, refs) ==
    IF refs = <<>> THEN [heap |-> h, refs |-> <<>>]
    ELSE LET h1 == cloneProperty(h, Head(refs))
             rest == cloneRefs(h1, Tail(refs))
         IN [heap |-> rest.heap, refs |-> <<Len(h1)>> \o rest.refs]

\* no clone: the passes work on the object they are given
structuredClone_Alias(h, inp) == [heap |-> h, root |-> inp]

\* structuredClone(input)
structuredClone(h, inp) ==
    LET c == cloneRefs(h, h[inp.properties].refs)
    IN [heap |-> Append(c.heap, [h[inp.properties] EXCEPT !.refs = c.refs]),
        root |-> [inp EXCEPT !.properties = Len(c.heap) + 1]]

InList(l, x) == \E i \in 1..Len(l) : l[i] = x

RequiredPrefix == <<"*", "*", "R", "E", "Q", "U", "I", "R", "E", "D", "*", "*", " ">>

RECURSIVE markFrom(_, _, _, _)
markFrom(h, mapRef, requiredNames, i) ==
    IF i > Len(h[mapRef].names) THEN h
    ELSE IF InList(requiredNames, h[mapRef].names[i])
    THEN LET property == h[h[mapRef].refs[i]]
             h1 == Append(h, [property EXCEPT
                        !.description = Str(RequiredPrefix \o TemplateText(property.description))])
         IN markFrom([h1 EXCEPT ![mapRef].refs[i] = Len(h1)], mapRef, requiredNames, i + 1)
    ELSE markFrom(h, mapRef, requiredNames, i + 1)

\* markInputPropertiesAsRequired(input): writes into input.properties and returns it
markInputPropertiesAsRequired(h, inp) ==
    [heap |-> markFrom(h, inp.properties, inp.required, 1), properties |-> inp.properties]

ItemEditors == {"requestListSources", "pseudoUrls", "globs", "keyValue", "resourcePicker"}

\* utils/apify-properties.ts: what each helper writes over {...property.items}
builtItems(editor, items) ==
    CASE editor = "resourcePicker" ->
            [items EXCEPT !.type = "string", !.title = "Resource ID",
                          !.description = Literal("Resource ID, either Apify Dataset, Key-Value Store, or Request List identifier")]
      [] editor = "keyValue" ->
            [items EXCEPT !.type = "object", !.title = "Key-Value Pair",
                          !.description = Literal("Key-value pair definition"),
                          !.properties = "key, value"]
      [] editor = "globs" ->
            [items EXCEPT !.type = "object", !.title = "Glob",
                          !.description = Literal("Glob pattern definition"),
                          !.properties = "glob, method, payload, userData, headers"]
      [] editor = "pseudoUrls" ->
            [items EXCEPT !.type = "object", !.title = "PseudoUrl",
                          !.description = Literal("PseudoUrl definition. ..."),
                          !.properties = "purl, method, payload, userData, headers"]
      [] editor = "requestListSources" ->
            [items EXCEPT !.type = "object", !.title = "Request list source",
                          !.description = Literal("Request list source"),
                          !.properties = "url, method, payload, userData, headers"]

RECURSIVE buildFrom(_, _, _)
buildFrom(h, mapRef, i) ==
    IF i > Len(h[mapRef].names) THEN h
    ELSE LET property == h[h[mapRef].refs[i]]
         IN IF property.type = "object" /\ property.editor = "proxy"
            THEN LET h1 == Append(h, [property EXCEPT
                                !.properties = "useApifyProxy, apifyProxyGroups, proxyUrls",
                                !.required = "useApifyProxy"])
                 IN buildFrom([h1 EXCEPT ![mapRef].refs[i] = Len(h1)], mapRef, i + 1)
            ELSE IF property.type = "array" /\ property.editor \in ItemEditors
            THEN LET spread == IF property.items = 0 THEN NoProperty ELSE h[property.items]
                     h1 == Append(h, builtItems(property.editor, spread))
                     h2 == Append(h1, [property EXCEPT !.items = Len(h1)])
                 IN buildFrom([h2 EXCEPT ![mapRef].refs[i] = Len(h2)], mapRef, i + 1)
            ELSE buildFrom(h, mapRef, i + 1)

\* buildApifySpecificProperties(properties): works on { ...properties }
buildApifySpecificProperties(h, mapRef) ==
    LET h1 == Append(h, h[mapRef])
    IN [heap |-> buildFrom(h1, Len(h1), 1), properties |-> Len(h1)]

editorTypeMap(editor) ==
    CASE editor = "requestListSources" -> "object"
      [] editor = "stringList" -> "string"
      [] editor = "json" -> "object"
      [] editor = "globs" -> "object"
      [] editor = "select" -> "string"
      [] OTHER -> "null"

\* typeof value[0] of an array
TypeOfFirst(l) == "string"

\* inferArrayItemType(property), "null" for null
inferArrayItemType(h, property) ==
    IF property.items # 0 /\ h[property.items].type # "undefined" THEN h[property.items].type
    ELSE IF property.prefill.kind = "array" /\ Len(property.prefill.v) > 0
    THEN TypeOfFirst(property.prefill.v)
    ELSE IF property.default.kind = "array" /\ Len(property.default.v) > 0
    THEN TypeOfFirst(property.default.v)
    ELSE IF property.editor # "undefined" THEN editorTypeMap(property.editor)
    ELSE "null"

RECURSIVE inferFrom(_, _, _)
inferFrom(h, mapRef, i) ==
    IF i > Len(h[mapRef].names) THEN h
    ELSE LET ref == h[mapRef].refs[i]
             property == h[ref]
             itemsType == inferArrayItemType(h, property)
         IN IF property.type = "array"
               /\ (property.items = 0 \/ h[property.items].type = "undefined")
               /\ itemsType # "null"
            THEN LET spread == IF property.items = 0 THEN NoProperty ELSE h[property.items]
                     h1 == Append(h, [spread EXCEPT
                              !.title = IF property.title = "undefined" THEN "Item"
                                        ELSE property.title,
                              !.description = IF property.description.kind = "undefined"
                                              THEN Str(<<"I", "t", "e", "m">>)
                                              ELSE property.description,
                              !.type = itemsType])
                 IN inferFrom([h1 EXCEPT ![ref].items = Len(h1)], mapRef, i + 1)
            ELSE inferFrom(h, mapRef, i + 1)

\* inferArrayItemsTypeIfMissing(properties): writes property.items in place
inferArrayItemsTypeIfMissing(h, mapRef) ==
    [heap |-> inferFrom(h, mapRef, 1), properties |-> mapRef]

RECURSIVE filterFrom(_, _, _, _)
filterFrom(h, mapRef, outRef, i) ==
    IF i > Len(h[mapRef].names) THEN h
    ELSE LET property == h[h[mapRef].refs[i]]
             h1 == Append(h, [property EXCEPT !.editor = "undefined", !.examples = UNDEF])
         IN filterFrom([h1 EXCEPT ![outRef] = ObjSet(@, h[mapRef].names[i], Len(h1))],
                       mapRef, outRef, i + 1)

\* filterSchemaProperties(properties): a new object per property, of the kept fields
filterSchemaProperties(h, mapRef) ==
    LET h1 == Append(h, EmptyMap)
    IN [heap |-> filterFrom(h1, mapRef, Len(h1), 1), properties |-> Len(h1)]

RECURSIVE shortenEnumFrom(_, _)
shortenEnumFrom(enumList, charCount) ==
    IF enumList = <<>> THEN <<>>
    ELSE (IF charCount + Len(Head(enumList)) <= ACTOR_ENUM_MAX_LENGTH
          THEN <<Head(enumList)>> ELSE <<>>)
         \o shortenEnumFrom(Tail(enumList), charCount + Len(Head(enumList)))

\* shortenEnum(enumList): the values kept while the running count fits, or undefined
shortenEnum(enumList) ==
    IF Len(shortenEnumFrom(enumList, 0)) > 0 THEN Arr(shortenEnumFrom(enumList, 0)) ELSE UNDEF

Ellipsis == <<".", ".", ".">>

\* a description left as long as it is
shortenDescription_Whole(description) == description

\* shortenProperties: the description of a property, cut to the limit
shortenDescription(description) ==
    IF Len(description) > ACTOR_MAX_DESCRIPTION_LENGTH
    THEN Slice0(description, ACTOR_MAX_DESCRIPTION_LENGTH) \o Ellipsis
    ELSE description

HasValues(v) == v.kind = "array" /\ Len(v.v) > 0

RECURSIVE shortenFrom(_, _, _)
shortenFrom(h, mapRef, i) ==
    IF i > Len(h[mapRef].names) THEN [heap |-> h, threw |-> FALSE]
    ELSE LET ref == h[mapRef].refs[i]
             property == h[ref]
         IN IF property.description.kind = "undefined"
            THEN [heap |-> h, threw |-> TRUE]      \* TypeError: property.description.length
            ELSE LET h1 == [h EXCEPT
                        ![ref].description = Str(shortenDescription(property.description.v)),
                        ![ref].enum = IF HasValues(property.enum)
                                      THEN shortenEnum(property.enum.v) ELSE property.enum]
                     h2 == IF property.items # 0 /\ HasValues(h[property.items].enum)
                           THEN [h1 EXCEPT ![property.items].enum =
                                                shortenEnum(h[property.items].enum.v)]
                           ELSE h1
                 IN shortenFrom(h2, mapRef, i + 1)

\* shortenProperties(properties): writes in place
shortenProperties(h, mapRef) ==
    [heap |-> shortenFrom(h, mapRef, 1).heap, properties |-> mapRef,
     threw |-> shortenFrom(h, mapRef, 1).threw]

Quoted(s) == <<"\"">> \o s \o <<"\"">>

\* JSON.stringify of a string or of an array of strings
JSONstringify(value) ==
    IF value.kind = "array"
    THEN <<"[">> \o Join([i \in 1..Len(value.v) |-> Quoted(value.v[i])], ",") \o <<"]">>
    ELSE Quoted(value.v)

\* value && !(Array.isArray(value) && value.length === 0)
IsExample(value) ==
    \/ value.kind = "array" /\ Len(value.v) > 0
    \/ value.kind = "string" /\ Len(value.v) > 0

PossibleValues == <<"\n", "P", "o", "s", "s", "i", "b", "l", "e", " ", "v", "a", "l", "u", "e", "s", ":", " ">>
ExampleValues == <<"\n", "E", "x", "a", "m", "p", "l", "e", " ", "v", "a", "l", "u", "e", "s", ":", " ">>

EnumsInDescriptionMax == 20

withEnums(property) ==
    IF HasValues(property.enum)
    THEN [property EXCEPT !.description =
            Str(TemplateText(@) \o PossibleValues
                \o Join(Slice0(property.enum.v, EnumsInDescriptionMax), ","))]
    ELSE property

withExamples(property) ==
    LET value == IF property.prefill.kind # "undefined" THEN property.prefill
                 ELSE property.default
    IN IF IsExample(value)
       THEN [property EXCEPT
                !.examples = IF value.kind = "array" THEN value ELSE Arr(<<value.v>>),
                !.description = Str(TemplateText(@) \o ExampleValues \o JSONstringify(value))]
       ELSE property

RECURSIVE addEnumsFrom(_, _, _)
addEnumsFrom(h, mapRef, i) ==
    IF i > Len(h[mapRef].names) THEN h
    ELSE addEnumsFrom([h EXCEPT ![h[mapRef].refs[i]] = withExamples(withEnums(@))],
                      mapRef, i + 1)

\* addEnumsToDescriptionsWithExamples(properties): writes in place
addEnumsToDescriptionsWithExamples(h, mapRef) ==
    [heap |-> addEnumsFrom(h, mapRef, 1), properties |-> mapRef]

DotCode == <<"-", "d", "o", "t", "-">>

\* String.prototype.replace(/sub/g, by): the matches from the left, not overlapping
RECURSIVE ReplaceEach(_, _, _)
ReplaceEach(s, sub, by) ==
    IF s = <<>> THEN <<>>
    ELSE IF StartsWith(s, sub)
    THEN by \o ReplaceEach(SubSeq(s, Len(sub) + 1, Len(s)), sub, by)
    ELSE <<Head(s)>> \o ReplaceEach(Tail(s), sub, by)

\* key.replace(/\./g, '-dot-')
encodeKey(key) == ReplaceAll(key, ".", DotCode)

\* key.replace(/-dot-/g, '.')
decodeKey(key) == ReplaceEach(key, DotCode, <<".">>)

RECURSIVE encodeFrom(_, _, _)
encodeFrom(m, out, i) ==
    IF i > Len(m.names) THEN out
    ELSE encodeFrom(m, ObjSet(out, encodeKey(m.names[i]), m.refs[i]), i + 1)

\* encodeDotPropertyNames(properties): a new object under the encoded names
encodeDotPropertyNames(h, mapRef) ==
    [heap |-> Append(h, encodeFrom(h[mapRef], EmptyMap, 1)), properties |-> Len(h) + 1]

RECURSIVE decodeFrom(_, _, _)
decodeFrom(m, out, i) ==
    IF i > Len(m.names) THEN out
    ELSE decodeFrom(m, ObjSet(out, decodeKey(m.names[i]), m.refs[i]), i + 1)

\* decodeDotPropertyNames(properties): a new object under the decoded names
decodeDotPropertyNames(m) == decodeFrom(m, EmptyMap, 1)

\* a pass applied to the properties that the pass before it returned
Piped(pass(_, _), previous) == pass(previous.heap, previous.properties)

\* transformActorInputSchemaProperties(input)
transformActorInputSchemaProperties(h, inp) ==
    LET inputClone == structuredClone(h, inp)
        marked == markInputPropertiesAsRequired(inputClone.heap, inputClone.root)
        built == Piped(buildApifySpecificProperties, marked)
        inferred == Piped(inferArrayItemsTypeIfMissing, built)
        filtered == Piped(filterSchemaProperties, inferred)
        shortened == Piped(shortenProperties, filtered)
        withEnumsAdded == Piped(addEnumsToDescriptionsWithExamples, shortened)
        encoded == Piped(encodeDotPropertyNames, withEnumsAdded)
    IN IF shortened.threw
       THEN [heap |-> shortened.heap, properties |-> 0, threw |-> TRUE]
       ELSE [heap |-> encoded.heap, properties |-> encoded.properties, threw |-> FALSE]

-----------------------------------------------------------------------------
(* The schemas adapted in the model *)

Xs(n) == [i \in 1..n |-> "x"]

\* absent, short, one over the limit once marked as required, at the limit, one over it
Descriptions ==
    {UNDEF,
     Str(<<"d">>),
     Str(Xs(ACTOR_MAX_DESCRIPTION_LENGTH + 1 - Len(RequiredPrefix))),
     Str(Xs(ACTOR_MAX_DESCRIPTION_LENGTH)),
     Str(Xs(ACTOR_MAX_DESCRIPTION_LENGTH + 1))}

\* two values that together exceed the budget of an enum
LongEnum == Arr(<<Xs(ACTOR_ENUM_MAX_LENGTH - 1), <<"y", "y">>, <<"z">> >>)
ShortEnum == Arr(<< <<"u">>, <<"v">> >>)

Shape(property, items) == [property |-> property, items |-> items]

\* a property and, in a sequence of at most one, the object its items field holds
Shapes ==
    {Shape([NoProperty EXCEPT !.type = "string", !.title = "T"], <<>>),
     Shape([NoProperty EXCEPT !.type = "string", !.title = "T", !.enum = ShortEnum], <<>>),
     Shape([NoProperty EXCEPT !.type = "string", !.enum = LongEnum,
                              !.default = Str(<<"u">>)], <<>>),
     Shape([NoProperty EXCEPT !.type = "array", !.title = "T", !.editor = "stringList"], <<>>),
     Shape([NoProperty EXCEPT !.type = "array", !.editor = "resourcePicker"],
           << [NoProperty EXCEPT !.enum = LongEnum] >>),
     Shape([NoProperty EXCEPT !.type = "object", !.title = "T", !.editor = "proxy"], <<>>),
     Shape([NoProperty EXCEPT !.type = "array", !.prefill = Arr(<< <<"p">> >>)],
           << [NoProperty EXCEPT !.title = "I"] >>),
     Shape([NoProperty EXCEPT !.type = "string", !.enum = Arr(<<>>),
                              !.prefill = Str(<<>>)], <<>>)}

Described(shape, description) ==
    [shape EXCEPT !.property.description = description]

SecondShapes ==
    {Shape([NoProperty EXCEPT !.type = "string", !.title = "S",
                              !.description = Str(<<"s">>)], <<>>),
     Shape([NoProperty EXCEPT !.type = "array", !.editor = "json"], <<>>)}

NameA == <<"a">>
NameAB == <<"a", ".", "b">>
NameCDE == <<"c", ".", "d", ".", "e">>
NameADotB == <<"a", "-", "d", "o", "t", "-", "b">>
NameADotBC == <<"a", "-", "d", "o", "t", "-", "b", ".", "c">>

PropertyNames == {NameA, NameAB, NameCDE, NameADotB, NameADotBC}

NamePairs == {<<NameA, NameAB>>, <<NameAB, NameADotB>>, <<NameCDE, NameA>>,
              <<NameADotBC, NameAB>>}

Entry(name, shape) == [name |-> name, shape |-> shape]

SchemaUniverse ==
    {[required |-> r, entries |-> <<Entry(n, Described(s, d))>>] :
        r \in {<<>>, <<NameA>>, <<NameAB, NameADotBC>>},
        n \in PropertyNames, s \in Shapes, d \in Descriptions}
    \cup
    {[required |-> r, entries |-> <<Entry(p[1], Described(s, d)), Entry(p[2], t)>>] :
        r \in {<<>>, <<NameAB>>}, p \in NamePairs, s \in Shapes, d \in Descriptions,
        t \in SecondShapes}

\* the objects of a schema: per property its items and itself, then the properties object
RECURSIVE HeapOfEntries(_, _, _)
HeapOfEntries(h, m, entries) ==
    IF entries = <<>> THEN Append(h, m)
    ELSE LET e == Head(entries)
             h1 == IF e.shape.items = <<>> THEN h ELSE Append(h, e.shape.items[1])
             h2 == Append(h1, [e.shape.property EXCEPT
                                 !.items = IF e.shape.items = <<>> THEN 0 ELSE Len(h1)])
         IN HeapOfEntries(h2, ObjSet(m, e.name, Len(h2)), Tail(entries))

HeapOf(s) == HeapOfEntries(<<>>, EmptyMap, s.entries)

SchemaInit ==
    /\ LoaderIdle
    /\ RegistriesEmpty
    /\ CallsIdle
    /\ ResourcesIdle
    /\ RepliesIdle
    /\ TurnsIdle
    /\ CacheIdle
    /\ StepsIdle
    /\ MoreIdle
    /\ \E s \in SchemaUniverse :
          /\ heap = HeapOf(s)
          /\ schema = [required |-> s.required, properties |-> Len(HeapOf(s))]
    /\ adapted = NotAdapted
    /\ callArgs = NoArgs
    /\ toolLoads = <<>>

\* getNormalActorsAsTools: the input schema of an Actor is adapted
Adapt ==
    /\ ~adapted.done
    /\ toolLoads = <<>>
    /\ LET r == transformActorInputSchemaProperties(heap, schema)
       IN /\ heap' = r.heap
          /\ adapted' = [done |-> TRUE, pass |-> "transform", threw |-> r.threw,
                         properties |-> r.properties, before |-> heap]
    /\ UNCHANGED <<schema, callArgs, toolLoads>>
    /\ UNCHANGED <<loaderVars, serverVars, resourceVars, replyVars, turnVars, cacheVars, stepVars, moreVars>>

\* shortenProperties applied to the properties of the schema
Shorten ==
    /\ ~adapted.done
    /\ toolLoads = <<>>
    /\ LET r == shortenProperties(heap, schema.properties)
       IN /\ heap' = r.heap
          /\ adapted' = [done |-> TRUE, pass |-> "shorten", threw |-> r.threw,
                         properties |-> r.properties, before |-> heap]
    /\ UNCHANGED <<schema, callArgs, toolLoads>>
    /\ UNCHANGED <<loaderVars, serverVars, resourceVars, replyVars, turnVars, cacheVars, stepVars, moreVars>>

\* the keys of m at the places in picked, in order
RECURSIVE Restrict(_, _, _)
Restrict(m, picked, i) ==
    IF i > Len(m.names) THEN EmptyMap
    ELSE LET rest == Restrict(m, picked, i + 1)
         IN IF i \in picked
            THEN [rest EXCEPT !.names = <<m.names[i]>> \o @, !.refs = <<i>> \o @]
            ELSE rest

\* ajvValidate of the tool, compiled from the input whose properties are the exported
\* ones and whose `required` is the one of the Actor: every required name is a key of
\* the arguments, and an argument whose key is a property of the compiled schema has a
\* value that property accepts.  `bad` holds the arguments (by the exported property
\* they were written for) whose value violates the type or the enum of that property.
ajvValidate(compiled, requiredNames, decoded, bad) ==
    /\ \A k \in 1..Len(requiredNames) : HasKey(decoded, requiredNames[k])
    /\ \A j \in 1..Len(decoded.names) :
            (/\ HasKey(compiled, decoded.names[j])
             /\ KeyAt(compiled, decoded.names[j]) = decoded.refs[j])
                => decoded.refs[j] \notin bad

\* tools/call of the Actor's tool: the client names arguments as the exported schema
\* does, and the handler decodes the names before validation
CallWithArguments(picked, bad) ==
    /\ adapted.done
    /\ adapted.pass = "transform"
    /\ ~adapted.threw
    /\ ~callArgs.sent
    /\ picked # {}
    /\ picked \subseteq 1..Len(heap[adapted.properties].names)
    /\ LET args == Restrict(heap[adapted.properties], picked, 1)
       IN callArgs' = [sent |-> TRUE, args |-> args, decoded |-> decodeDotPropertyNames(args),
                       bad |-> bad,
                       valid |-> ajvValidate(heap[adapted.properties], schema.required,
                                             decodeDotPropertyNames(args), bad)]
    /\ UNCHANGED <<heap, schema, adapted, toolLoads>>
    /\ UNCHANGED <<loaderVars, serverVars, resourceVars, replyVars, turnVars, cacheVars, stepVars, moreVars>>

\* what is reachable from a properties object: the names, each property and its items
DeepValue(h, mapRef) ==
    [names |-> h[mapRef].names,
     values |-> [i \in 1..Len(h[mapRef].refs) |->
                    [property |-> [h[h[mapRef].refs[i]] EXCEPT !.items = 0],
                     items |-> IF h[h[mapRef].refs[i]].items = 0 THEN <<>>
                               ELSE <<h[h[h[mapRef].refs[i]].items]>>]]]

MaxLoads == 2         \* loads of the cached Actor in a behaviour

\* getActorsAsTools working on the objects of the cache
cloneActorsInfo_Alias(h, inp) == [heap |-> h, root |-> inp, fresh |-> FALSE]

\* getActorsAsTools: structuredClone(actorsInfo), the definitions served from the cache
\* included
cloneActorsInfo(h, inp) ==
    LET cloned == CHOOSE c \in {structuredClone(h, inp)} : TRUE
    IN [heap |-> cloned.heap, root |-> cloned.root, fresh |-> TRUE]

\* getActorsAsTools of the Actor whose definition is in the cache (within its TTL), and
\* getNormalActorsAsTools of it: the properties of the definition it is given are
\* replaced by the adapted ones, which are the input schema of the tool
LoadCachedActor ==
    /\ ~adapted.done
    /\ Len(toolLoads) < MaxLoads
    /\ \E c \in {cloneActorsInfo(heap, schema)} :
         \E r \in {transformActorInputSchemaProperties(c.heap, c.root)} :
            \E cached \in {IF c.fresh \/ r.threw THEN schema
                            ELSE [schema EXCEPT !.properties = r.properties]} :
                /\ heap' = r.heap
                /\ schema' = cached
                /\ toolLoads' = Append(toolLoads,
                      [threw |-> r.threw,
                       required |-> c.root.required,
                       inputSchema |-> IF r.threw THEN <<>>
                                       ELSE <<DeepValue(r.heap, r.properties)>>,
                       cachedBefore |-> [required |-> schema.required,
                                         properties |-> DeepValue(heap, schema.properties)],
                       cachedAfter |-> [required |-> cached.required,
                                        properties |-> DeepValue(r.heap, cached.properties)]])
    /\ UNCHANGED <<adapted, callArgs>>
    /\ UNCHANGED <<loaderVars, serverVars, resourceVars, replyVars, turnVars, cacheVars,
                   stepVars, moreVars>>

SchemaNext ==
    \/ LoadCachedActor
    \/ Adapt
    \/ Shorten
    \/ \E picked \in SUBSET (1..2) : \E bad \in SUBSET picked : CallWithArguments(picked, bad)

SpecSchema == SchemaInit /\ [][SchemaNext]_vars

\* the property names of the input schema
NamesOfSchema == {heap[schema.properties].names[i] : i \in 1..Len(heap[schema.properties].names)}

HasDot(name) == \E i \in 1..Len(name) : name[i] = "."

\* C22: for every property name with a dot, decoding the encoded name gives the name
\* back, and an argument sent under an exported name is validated under the name of a
\* property of the schema.
C22_DecodeInvertsEncode ==
    /\ \A n \in (IF schema = NoSchema THEN {} ELSE NamesOfSchema) :
            HasDot(n) => decodeKey(encodeKey(n)) = n
    /\ callArgs.sent =>
            \A i \in 1..Len(callArgs.decoded.names) :
                callArgs.decoded.names[i] \in NamesOfSchema

\* C23: every pass, and the pipeline, returns normally for every input schema,
\* properties without a description included.
C23_PipelineTotal ==
    adapted.done => ~adapted.threw

\* C24: after transformActorInputSchemaProperties, whether it returned or threw, the
\* input schema and everything reachable from it are as they were before the call.
C24_InputNotMutated ==
    (adapted.done /\ adapted.pass = "transform")
        => /\ DeepValue(heap, schema.properties) = DeepValue(adapted.before, schema.properties)
           /\ \A ref \in 1..Len(adapted.before) : heap[ref] = adapted.before[ref]

\* the pipeline returned properties that differ from those of the input: one is marked
\* as required, and one has got an items object
C24_Witness ==
    /\ adapted.done
    /\ adapted.pass = "transform"
    /\ ~adapted.threw
    /\ \E i \in 1..Len(heap[schema.properties].names) :
          /\ InList(schema.required, heap[schema.properties].names[i])
          /\ heap[heap[adapted.properties].refs[i]].description
                # heap[heap[schema.properties].refs[i]].description
    /\ \E i \in 1..Len(heap[schema.properties].names) :
          /\ heap[heap[schema.properties].refs[i]].items = 0
          /\ heap[heap[adapted.properties].refs[i]].items # 0

EndsWith(s, suffix) ==
    Len(s) >= Len(suffix) /\ SubSeq(s, Len(s) - Len(suffix) + 1, Len(s)) = suffix

\* C25: shortenProperties turns every description longer than the limit into one of
\* at most the limit plus three characters that ends in "...", and leaves the others.
C25_ShortenedWithinLimit ==
    (adapted.done /\ adapted.pass = "shorten" /\ ~adapted.threw)
        => \A i \in 1..Len(heap[schema.properties].refs) :
              LET given == adapted.before[heap[schema.properties].refs[i]].description.v
                  output == heap[heap[schema.properties].refs[i]].description.v
              IN IF Len(given) > ACTOR_MAX_DESCRIPTION_LENGTH
                 THEN /\ Len(output) <= ACTOR_MAX_DESCRIPTION_LENGTH + Len(Ellipsis)
                      /\ EndsWith(output, Ellipsis)
                      /\ Slice0(output, ACTOR_MAX_DESCRIPTION_LENGTH)
                            = Slice0(given, ACTOR_MAX_DESCRIPTION_LENGTH)
                 ELSE output = given

\* a description one character over the limit has been shortened
C25_Witness ==
    /\ adapted.done
    /\ adapted.pass = "shorten"
    /\ ~adapted.threw
    /\ \E i \in 1..Len(heap[schema.properties].refs) :
          /\ Len(adapted.before[heap[schema.properties].refs[i]].description.v)
                = ACTOR_MAX_DESCRIPTION_LENGTH + 1
          /\ Len(heap[heap[schema.properties].refs[i]].description.v)
                = ACTOR_MAX_DESCRIPTION_LENGTH + Len(Ellipsis)

\* C39: building the tool of an Actor never modifies the definition held in the cache:
\* a second load within the TTL, served from the cache, gives a tool with the same
\* input schema as the first, and the adaptation is never applied to adapted data.
C39_CachedDefinitionNotModified ==
    /\ \A i \in 1..Len(toolLoads) : toolLoads[i].cachedAfter = toolLoads[i].cachedBefore
    /\ \A i, j \in 1..Len(toolLoads) :
            /\ toolLoads[j].threw = toolLoads[i].threw
            /\ toolLoads[j].required = toolLoads[i].required
            /\ toolLoads[j].inputSchema = toolLoads[i].inputSchema

\* two loads of an Actor with a required property: the tools have the same schema,
\* which differs from the cached one
C39_Witness ==
    /\ Len(toolLoads) = 2
    /\ ~toolLoads[2].threw
    /\ toolLoads[2].inputSchema = toolLoads[1].inputSchema
    /\ toolLoads[2].inputSchema[1] # toolLoads[2].cachedAfter.properties
    /\ \E i \in 1..Len(heap[schema.properties].names) :
            InList(schema.required, heap[schema.properties].names[i])

\* the original names of the property an argument was written for: those the exported
\* name of the argument encodes
OriginalsOf(exported) == {n \in NamesOfSchema : encodeKey(n) = exported}

\* C35: an argument for a property whose original name has a dot is validated against
\* the schema of that property: under the exported name, a value that violates the type
\* or the enum of the property makes the call fail with InvalidParams.
C35_DottedArgumentValidated ==
    callArgs.sent =>
        \A i \in 1..Len(callArgs.args.names) :
            (/\ callArgs.args.refs[i] \in callArgs.bad
             /\ \E n \in OriginalsOf(callArgs.args.names[i]) : HasDot(n))
                => ~callArgs.valid

\* the same for a property whose name has no dot and no `-dot-`: the violating value
\* is refused
PlainArgumentValidated ==
    callArgs.sent =>
        \A i \in 1..Len(callArgs.args.names) :
            (/\ callArgs.args.refs[i] \in callArgs.bad
             /\ decodeKey(callArgs.args.names[i]) = callArgs.args.names[i])
                => ~callArgs.valid

-----------------------------------------------------------------------------
(* tools/actor.ts: the call-actor tool and its two steps *)

MaxStepRuns == 2      \* most runs call-actor starts in a behaviour

StepActors == {ActorAB, ActorCD, ActorMcp, ActorNone}
StepArgs == {"absent", "info", "call"}
InputObject(valid) == [kind |-> "object", valid |-> valid]
StepInputs == {UNDEF, InputObject(TRUE), InputObject(FALSE)}

\* callActorArgs.parse: `step` defaults to "info"
parseStep(stepArg) == IF stepArg = "absent" THEN "info" ELSE stepArg

\* fetchActorDetails: null when the Actor or its build is not found
fetchActorDetails(actorName) == getActorDefinition(actorName)

\* callActor.call: the answer of one call and whether it started a run. `raised` says
\* that the platform request of the step (the details, or the start of the run) failed.
callActor(actorName, stepArg, inp, raised) ==
    LET step == parseStep(stepArg)
        found == getActorsAsTools(<<actorName>>)
    IN IF step = "info"
       THEN [answer |-> IF raised THEN "error text"
                        ELSE IF fetchActorDetails(actorName) = NotFound
                             THEN "information not found"
                             ELSE "input schema",
             runStarted |-> FALSE]
       ELSE IF inp = UNDEF
            THEN [answer |-> "input required", runStarted |-> FALSE]
            ELSE IF Len(found) = 0
                 THEN [answer |-> "not found", runStarted |-> FALSE]
                 ELSE IF ~inp.valid
                      THEN [answer |-> "validation failed", runStarted |-> FALSE]
                      ELSE IF raised
                           THEN [answer |-> "error text", runStarted |-> FALSE]
                           ELSE [answer |-> "content", runStarted |-> TRUE]

StepsInit ==
    /\ LoaderIdle
    /\ RegistriesEmpty
    /\ CallsIdle
    /\ ResourcesIdle
    /\ RepliesIdle
    /\ TurnsIdle
    /\ CacheIdle
    /\ SchemaIdle
    /\ StepsIdle
    /\ MoreIdle

\* a tools/call of call-actor that passed the handler's checks
CallActor(actorName, stepArg, inp, raised) ==
    LET r == callActor(actorName, stepArg, inp, raised)
    IN /\ r.runStarted => Len(actorRuns) < MaxStepRuns
       /\ infoMade' = IF parseStep(stepArg) = "info" THEN infoMade \cup {actorName}
                       ELSE infoMade
       /\ actorRuns' = IF r.runStarted THEN Append(actorRuns, actorName) ELSE actorRuns
       /\ lastStep' = [actor |-> actorName, step |-> parseStep(stepArg),
                       answer |-> r.answer, runStarted |-> r.runStarted,
                       infoBefore |-> actorName \in infoMade]
       /\ UNCHANGED <<loaderVars, serverVars, resourceVars, replyVars, turnVars, cacheVars,
                      schemaVars, moreVars>>

StepsNext ==
    \E actorName \in StepActors, stepArg \in StepArgs, inp \in StepInputs, raised \in BOOLEAN :
        CallActor(actorName, stepArg, inp, raised)

SpecSteps == StepsInit /\ [][StepsNext]_vars

\* C30: call-actor starts a run of an Actor only after a call with step "info" was made
\* for that Actor; a call with step "call" that no such call preceded starts no run.
C30_RunOnlyAfterInfo ==
    lastStep.runStarted => lastStep.infoBefore

\* the answers call-actor gives without starting a run, and the run of a valid call
C30_CallStartsRun ==
    /\ lastStep.step = "info" => ~lastStep.runStarted
    /\ lastStep.runStarted <=> (lastStep.step = "call" /\ lastStep.answer = "content")

-----------------------------------------------------------------------------
(* The memory a run is started with: mcp/server.ts (Actor tools) and tools/actor.ts *)
(* (call-actor)                                                                   *)

MaxStarts == 2            \* most runs started in a behaviour

CALL_MEMORY_MIN == 128    \* callActorArgs: callOptions.memory .min
CALL_MEMORY_MAX == 32768  \* callActorArgs: callOptions.memory .max

\* the variables of the specifications above
oldVars == <<loaderVars, serverVars, resourceVars, replyVars, turnVars, cacheVars,
             schemaVars, stepVars>>

MemoryActors == {ActorAB, ActorCD, RagWebBrowser}

\* callOptions.memory of a call-actor request that passed validation: 0 stands for a
\* request without the option
CallMemories ==
    {0, CALL_MEMORY_MIN, ACTOR_MAX_MEMORY_MBYTES, 2 * ACTOR_MAX_MEMORY_MBYTES, CALL_MEMORY_MAX}

\* actorClient.start(input, callOptions): the memory of the run is the option, and the
\* Actor's default run options when the option is left out
runMemory(actorName, memory) ==
    IF memory # 0 THEN memory ELSE getActorDefinition(actorName).memoryMbytes

\* tools/call of an Actor tool: callOptions is { memory: actorTool.memoryMbytes }
actorToolCallOptions(actorName) ==
    ActorToolEntry(getActorDefinition(actorName), 1).memoryMbytes

MemoryInit ==
    /\ LoaderIdle
    /\ RegistriesEmpty
    /\ CallsIdle
    /\ ResourcesIdle
    /\ RepliesIdle
    /\ TurnsIdle
    /\ CacheIdle
    /\ SchemaIdle
    /\ StepsIdle
    /\ MoreIdle

\* tools/call of the tool of an Actor: the run is started with the memory of the tool
StartByActorTool(actorName) ==
    /\ Len(starts) < MaxStarts
    /\ starts' = Append(starts, [by |-> "actor", actor |-> actorName,
                                 option |-> actorToolCallOptions(actorName),
                                 memory |-> runMemory(actorName,
                                                      actorToolCallOptions(actorName))])
    /\ UNCHANGED <<oldVars, loggingVars, progressVars>>

\* tools/call of call-actor with step "call": the run is started with the caller's
\* callOptions
StartByCallActor(actorName, memory) ==
    /\ Len(starts) < MaxStarts
    /\ callActor(actorName, "call", InputObject(TRUE), FALSE).runStarted
    /\ starts' = Append(starts, [by |-> "call-actor", actor |-> actorName,
                                 option |-> memory,
                                 memory |-> runMemory(actorName, memory)])
    /\ UNCHANGED <<oldVars, loggingVars, progressVars>>

MemoryNext ==
    \E actorName \in MemoryActors :
        \/ StartByActorTool(actorName)
        \/ \E memory \in CallMemories : StartByCallActor(actorName, memory)

SpecMemory == MemoryInit /\ [][MemoryNext]_vars

\* C31: every run is started with a memory limit of at most 4096 MB, whichever tool
\* starts it and whatever the Actor's default run options or the caller's options ask.
C31_MemoryAtMostMax ==
    \A i \in 1..Len(starts) : starts[i].memory <= ACTOR_MAX_MEMORY_MBYTES

\* the runs started by the tool of an Actor are within the limit
ActorToolMemoryAtMostMax ==
    \A i \in 1..Len(starts) :
        starts[i].by = "actor" =>
            /\ starts[i].option > 0
            /\ starts[i].memory <= ACTOR_MAX_MEMORY_MBYTES

-----------------------------------------------------------------------------
(* mcp/server.ts: the logging level and the filter of log notifications *)

\* the levels of requests and of messages: the eight of LOG_LEVEL_MAP and two others
LevelUniverse == DOMAIN LOG_LEVEL_MAP \cup {"verbose", "INFO"}

\* setupLoggingHandlers that takes every level named
setLevel_Any(current, level) == level

\* setupLoggingHandlers: the level after a logging/setLevel request
setLevel(current, level) ==
    IF level \in DOMAIN LOG_LEVEL_MAP THEN level ELSE current

LoggingInit ==
    /\ LoaderIdle
    /\ RegistriesEmpty
    /\ CallsIdle
    /\ ResourcesIdle
    /\ RepliesIdle
    /\ TurnsIdle
    /\ CacheIdle
    /\ SchemaIdle
    /\ StepsIdle
    /\ MoreIdle

\* a logging/setLevel request is handled
SetLoggingLevel(level) ==
    /\ logLevel' = setLevel(logLevel, level)
    /\ logged' = [op |-> "setLevel", level |-> level, before |-> logLevel, forwarded |-> <<>>]
    /\ UNCHANGED reply
    /\ UNCHANGED <<loaderVars, serverVars, resourceVars, turnVars, cacheVars, schemaVars,
                   stepVars, memoryVars, progressVars>>

\* the server sends a log message through the proxied sendLoggingMessage
SendLoggingMessage(level) ==
    /\ logged' = [op |-> "log", level |-> level, before |-> logLevel,
                  forwarded |-> sendLoggingMessage(logLevel, [level |-> level, data |-> <<>>])]
    /\ UNCHANGED <<logLevel, reply>>
    /\ UNCHANGED <<loaderVars, serverVars, resourceVars, turnVars, cacheVars, schemaVars,
                   stepVars, memoryVars, progressVars>>

LoggingNext ==
    \E level \in LevelUniverse : SetLoggingLevel(level) \/ SendLoggingMessage(level)

SpecLogging == LoggingInit /\ [][LoggingNext]_vars

\* the order of the eight levels
LevelOrder ==
    <<"debug", "info", "notice", "warning", "error", "critical", "alert", "emergency">>

RankOf(level) == CHOOSE i \in 1..Len(LevelOrder) : LevelOrder[i] = level

AtOrAbove(level, threshold) ==
    /\ level \in Range(LevelOrder)
    /\ RankOf(level) >= RankOf(threshold)

\* C32: a log notification is forwarded to the client if and only if its level is at or
\* above the threshold in the order debug < info < notice < warning < error < critical
\* < alert < emergency; the threshold is info at first and is changed only by a
\* logging/setLevel request that names one of the eight levels.
C32_ForwardedIffAtOrAbove ==
    /\ logLevel \in Range(LevelOrder)
    /\ logged.op = "none" => logLevel = "info"
    /\ logged.op = "log" =>
        /\ logLevel = logged.before
        /\ logged.forwarded = IF AtOrAbove(logged.level, logged.before)
                              THEN <<[level |-> logged.level, data |-> <<>>]>> ELSE <<>>
    /\ logged.op = "setLevel" =>
        /\ logged.forwarded = <<>>
        /\ logLevel = IF logged.level \in Range(LevelOrder) THEN logged.level
                      ELSE logged.before

\* a message at the threshold `warning`, set by a request, is forwarded
C32_Witness ==
    /\ logged.op = "log"
    /\ logged.before = "warning"
    /\ logged.level = "warning"
    /\ Len(logged.forwarded) = 1

-----------------------------------------------------------------------------
(* utils/progress.ts ProgressTracker: the status polls of a run and the progress *)
(* notifications of a call                                                        *)

MaxPolls == 3         \* most status polls started in a behaviour

TerminalStatuses == {"SUCCEEDED", "FAILED", "ABORTED", "TIMED-OUT"}

RunStatuses == {"RUNNING", "SUCCEEDED", "ABORTED"}
StatusMessages == {Absent, "", "m"}

\* statusMessage || ''
orEmpty(statusMessage) == IF statusMessage \in {Absent, ""} THEN "" ELSE statusMessage

\* the comparison that treats a missing message as the empty one
changed_Normalised(status, statusMessage, lastStatus, lastStatusMessage) ==
    status # lastStatus \/ orEmpty(statusMessage) # lastStatusMessage

\* status !== lastStatus || statusMessage !== lastStatusMessage
changed(status, statusMessage, lastStatus, lastStatusMessage) ==
    status # lastStatus \/ statusMessage # lastStatusMessage

\* the message of the notification: the status message, or the status without one
progressMessage(status, statusMessage) ==
    IF orEmpty(statusMessage) # "" THEN statusMessage ELSE status

NoPoll ==
    [pc |-> "getting", status |-> "", statusMessage |-> "", notified |-> FALSE,
     message |-> "", progress |-> 0, sameAsPrevious |-> FALSE, afterEnd |-> FALSE,
     afterTerminal |-> FALSE, startedAfterTerminal |-> FALSE]

ProgressInit ==
    /\ LoaderIdle
    /\ RegistriesEmpty
    /\ CallsIdle
    /\ ResourcesIdle
    /\ RepliesIdle
    /\ TurnsIdle
    /\ CacheIdle
    /\ SchemaIdle
    /\ StepsIdle
    /\ MoreIdle

\* startActorRunUpdates, up to setInterval
StartActorRunUpdates ==
    /\ ~tracker.started
    /\ tracker' = [tracker EXCEPT !.started = TRUE, !.interval = TRUE]
    /\ UNCHANGED <<polls, remoteRun>>
    /\ UNCHANGED <<oldVars, memoryVars, loggingVars>>

\* the interval fires: the callback asks the platform for the run
IntervalFires ==
    /\ tracker.interval
    /\ Len(polls) < MaxPolls
    /\ polls' = Append(polls, [NoPoll EXCEPT !.startedAfterTerminal = tracker.terminalSeen])
    /\ UNCHANGED <<tracker, remoteRun>>
    /\ UNCHANGED <<oldVars, memoryVars, loggingVars>>

\* the platform: the run changes its status or its status message
RunChanges(status, statusMessage) ==
    /\ remoteRun.status \notin TerminalStatuses
    /\ remoteRun # [status |-> status, statusMessage |-> statusMessage]
    /\ remoteRun' = [status |-> status, statusMessage |-> statusMessage]
    /\ UNCHANGED <<tracker, polls>>
    /\ UNCHANGED <<oldVars, memoryVars, loggingVars>>

\* client.run(runId).get() of a poll returns the run, or nothing, or throws; for a
\* run that differs from the last one seen the notification is sent
GetReturns(p, outcome) ==
    /\ polls[p].pc = "getting"
    /\ IF outcome # "run"
       THEN /\ polls' = [polls EXCEPT ![p].pc = "done"]
            /\ UNCHANGED tracker
       ELSE LET status == remoteRun.status
                statusMessage == remoteRun.statusMessage
                differs == changed(status, statusMessage, tracker.lastStatus,
                                   tracker.lastStatusMessage)
            IN /\ polls' = [polls EXCEPT ![p] =
                    [@ EXCEPT !.pc = IF differs THEN "sending" ELSE "done",
                              !.status = status,
                              !.statusMessage = statusMessage,
                              !.notified = differs,
                              !.message = IF differs THEN progressMessage(status, statusMessage)
                                          ELSE "",
                              !.progress = IF differs THEN tracker.currentProgress + 1 ELSE 0,
                              !.sameAsPrevious = tracker.observed = <<status, statusMessage>>,
                              !.afterEnd = tracker.ended,
                              !.afterTerminal = tracker.terminalSeen]]
               /\ tracker' = [tracker EXCEPT
                    !.lastStatus = IF differs THEN status ELSE @,
                    !.lastStatusMessage = IF differs THEN orEmpty(statusMessage) ELSE @,
                    !.currentProgress = IF differs THEN @ + 1 ELSE @,
                    !.observed = <<status, statusMessage>>,
                    !.terminalSeen = @ \/ status \in TerminalStatuses]
    /\ UNCHANGED remoteRun
    /\ UNCHANGED <<oldVars, memoryVars, loggingVars>>

\* sendNotification of a poll returns: for a finished run the tracker is stopped
SendReturns(p) ==
    /\ polls[p].pc = "sending"
    /\ polls' = [polls EXCEPT ![p].pc = "done"]
    /\ tracker' = [tracker EXCEPT
            !.interval = IF polls[p].status \in TerminalStatuses THEN FALSE ELSE @]
    /\ UNCHANGED remoteRun
    /\ UNCHANGED <<oldVars, memoryVars, loggingVars>>

\* the call ends: the handler stops the tracker
CallEnds ==
    /\ tracker.started
    /\ ~tracker.ended
    /\ tracker' = [tracker EXCEPT !.interval = FALSE, !.ended = TRUE]
    /\ UNCHANGED <<polls, remoteRun>>
    /\ UNCHANGED <<oldVars, memoryVars, loggingVars>>

ProgressNext ==
    \/ StartActorRunUpdates
    \/ IntervalFires
    \/ \E status \in RunStatuses, statusMessage \in StatusMessages :
            RunChanges(status, statusMessage)
    \/ \E p \in 1..Len(polls) :
            \/ \E outcome \in {"run", "nothing", "throws"} : GetReturns(p, outcome)
            \/ SendReturns(p)
    \/ CallEnds

SpecProgress == ProgressInit /\ [][ProgressNext]_vars

\* C36: after a call has ended and its tracker was stopped, no progress notification
\* with the token of the call is sent, even if a poll was in flight at that moment.
C36_SilentAfterCallEnds ==
    \A p \in 1..Len(polls) : polls[p].notified => ~polls[p].afterEnd

\* C37: a notification is sent only when the status or the status message differs from
\* what the poll before observed: a poll that observes the same status and the same
\* message as the one before it, present or absent, sends none.
C37_NotifiedOnlyOnChange ==
    \A p \in 1..Len(polls) : polls[p].sameAsPrevious => ~polls[p].notified

\* with a status message present, a poll that observes what the one before it observed
\* sends nothing
PresentMessageNotRepeated ==
    \A p \in 1..Len(polls) :
        (polls[p].sameAsPrevious /\ polls[p].statusMessage # Absent) => ~polls[p].notified

\* C38: once a poll has observed the run in a terminal status, polling stops: no poll is
\* started and no notification is sent for the run after that.
C38_StopsOnTerminal ==
    \A p \in 1..Len(polls) :
        /\ ~polls[p].startedAfterTerminal
        /\ polls[p].notified => ~polls[p].afterTerminal

\* without polls in flight at that moment, the poll that observes a terminal status is
\* the last one
TerminalPollStops ==
    \A p \in 1..Len(polls) :
        (/\ polls[p].pc = "done"
         /\ polls[p].status \in TerminalStatuses
         /\ polls[p].notified) => ~tracker.interval

=============================================================================
